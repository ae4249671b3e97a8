------------------------------ MODULE EventLog ------------------------------
(***************************************************************************)
(* What the event stream promises a client: events are numbered in the     *)
(* order they are emitted; the client shows an event once, after it was    *)
(* emitted, the events of one message in order; its cursor is one past the *)
(* highest event shown and never moves back.  Connections, lag, backlogs   *)
(* and key storage are not in sight.  EventStream implements this.         *)
(***************************************************************************)
EXTENDS Naturals, Sequences

VARIABLES
  log,      \* the number of events emitted
  view,     \* the events shown, in the order they were
  last,     \* the client's cursor
  ordered   \* whether the client shows only what is above its cursor

logVars == <<log, view, last, ordered>>

LogInit ==
  /\ log = 0
  /\ view = <<>>
  /\ last = 0
  /\ ordered \in BOOLEAN

Emitted == log' = log + 1 /\ UNCHANGED <<view, last, ordered>>

Unshown ==
  {n \in 0..(log - 1) :
     (\A i \in 1..Len(view) : view[i] # n) /\ (ordered => n >= last)}

Show ==
  \E n \in 1..log : \E new \in [1..n -> Unshown] :
    /\ \A i, j \in 1..n : i < j => new[i] < new[j]
    /\ view' = view \o new
    /\ last' = IF new[n] >= last THEN new[n] + 1 ELSE last
    /\ UNCHANGED <<log, ordered>>

LogSpec == LogInit /\ [][Emitted \/ Show]_logVars

=============================================================================
