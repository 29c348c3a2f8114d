----------------------------- MODULE ScoreReplay -----------------------------
(***************************************************************************)
(* The risk scorer in front of the warehouse sink: what the sink receives  *)
(* when the scorer dies between the publish of a hand's score and the      *)
(* commit of its input, and scores the hand again.  The event ID of a score*)
(* is a hash of the model run and the pair snapshots; its scored_at and    *)
(* emitted_at are the later of the wall clock and its inputs' emission.    *)
(***************************************************************************)
EXTENDS EventSink

CONSTANTS
  Scores,      \* the partition of the risk-score topic
  EmittedAt,   \* when the hand's pair snapshots were emitted
  MaxClock     \* bound: the wall clock; contents are its times, 0 .. MaxClock

VARIABLES
  open,    \* the hands whose input is not committed
  scored,  \* the hands this scorer process has published but not committed
  clock    \* the wall clock

replayVars == <<vars, open, scored, clock>>

ReplayInit ==
  /\ Init
  /\ open = EventId
  /\ scored = {}
  /\ clock = 0

\* ScoreHand takes the clock once and never dates a score before its inputs.
ScoredAt == IF EmittedAt > clock THEN EmittedAt ELSE clock

\* BuildSeparatedOutputEvents and the publish: the ID is the hand's, the content
\* carries the time.
PublishScore(h) ==
  /\ h \in open \ scored
  /\ Produce(Scores, [id |-> h, content |-> ScoredAt])
  /\ scored' = scored \cup {h}
  /\ UNCHANGED <<open, clock>>

CommitInput(h) ==
  /\ h \in scored
  /\ open' = open \ {h}
  /\ scored' = scored \ {h}
  /\ UNCHANGED <<vars, clock>>

\* The scorer dies and restarts: the hands it did not commit come again, its group
\* having an offset (or --from-beginning).
ScorerRestart ==
  /\ scored # {}
  /\ scored' = {}
  /\ UNCHANGED <<vars, open, clock>>

Tick ==
  /\ clock < MaxClock
  /\ clock' = clock + 1
  /\ UNCHANGED <<vars, open, scored>>

ReplayNext ==
  \/ \E h \in EventId : PublishScore(h) \/ CommitInput(h)
  \/ ScorerRestart
  \/ Tick
  \/ (ConsumerNext \/ WriterNext) /\ UNCHANGED <<open, scored, clock>>

ReplaySpec == ReplayInit /\ [][ReplayNext]_replayVars

-----------------------------------------------------------------------------

\* Replayed scores can be deduplicated downstream by their ID: the sink never
\* sees another content under an ID it has stored.
ReplaysDeduplicate ==
  \A t \in Thread : lock = t /\ threads[t].pc = "check" => Status(threads[t].req) # "collision"
=============================================================================
