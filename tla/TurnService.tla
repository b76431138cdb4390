---------------------------- MODULE TurnService -----------------------------
(***************************************************************************)
(* What the host promises whoever watches a session.  The session is free, *)
(* or one run has it.  The live stream shows a turn as its start and its   *)
(* ending, and the ending appears in the step that frees the session.      *)
(* What it shows is in the record of the session, with one exception: a    *)
(* run whose ending could not be recorded is shown a made-up one.          *)
(***************************************************************************)
EXTENDS Sequences

CONSTANTS Run, Session, Home

VARIABLES
  phase,   \* "new", "open", "refused" or "over"
  record,  \* the events of each session in the store, in order
  shown    \* the starts and endings on its live stream, in order

svars == <<phase, record, shown>>

Ending == {"completed", "cancelled", "failed"}
MadeUp == "synthetic"

E(r, k) == [run |-> r, kind |-> k]
Has(sq, r, k) == \E i \in DOMAIN sq : sq[i] = E(r, k)
Recorded(r, k) == Has(record[Home[r]], r, k)
Shown(r, k) == Has(shown[Home[r]], r, k)

Init ==
  /\ phase = [r \in Run |-> "new"]
  /\ record = [s \in Session |-> <<>>]
  /\ shown = [s \in Session |-> <<>>]

\* The run gets the session, which nobody has.
Open(r) ==
  /\ phase[r] = "new"
  /\ \A q \in Run : phase[q] = "open" => Home[q] # Home[r]
  /\ phase' = [phase EXCEPT ![r] = "open"]
  /\ UNCHANGED <<record, shown>>

\* Without a trace.
Refuse(r) ==
  /\ phase[r] = "open"
  /\ \A i \in DOMAIN record[Home[r]] : record[Home[r]][i].run # r
  /\ phase' = [phase EXCEPT ![r] = "refused"]
  /\ UNCHANGED <<record, shown>>

\* A run is recorded from its start to its ending, each once.
MayRecord(r, k) ==
  /\ phase[r] = "open"
  /\ Recorded(r, "started") <=> k # "started"
  /\ \A e \in Ending : ~Recorded(r, e)

\* A call that asked may be closed by somebody else, and later.
MayClose(r, k) == k \in {"responded", "executed"} /\ Recorded(r, "asked")

Record(r, k) ==
  /\ k # MadeUp
  /\ MayRecord(r, k) \/ MayClose(r, k)
  /\ record' = [record EXCEPT ![Home[r]] = Append(@, E(r, k))]
  /\ UNCHANGED <<phase, shown>>

Show(r, k) == shown' = [shown EXCEPT ![Home[r]] = Append(@, E(r, k))]

Start(r) ==
  /\ phase[r] = "open"
  /\ Recorded(r, "started") /\ ~Shown(r, "started")
  /\ Show(r, "started")
  /\ UNCHANGED <<phase, record>>

\* With what is recorded, after its start, or with a made-up ending.
End(r, k) ==
  /\ phase[r] = "open"
  /\ \/ k \in Ending /\ Recorded(r, k) /\ Shown(r, "started")
     \/ k = MadeUp /\ \A e \in Ending : ~Recorded(r, e)
  /\ phase' = [phase EXCEPT ![r] = "over"]
  /\ Show(r, k)
  /\ UNCHANGED record

Kinds == Ending \union {MadeUp, "started", "asked", "responded", "executed"}

Next ==
  \E r \in Run :
    \/ Open(r) \/ Refuse(r) \/ Start(r)
    \/ \E k \in Kinds : Record(r, k) \/ End(r, k)

Spec == Init /\ [][Next]_svars

=============================================================================
