--------------------------- MODULE CredentialCell ---------------------------
(***************************************************************************)
(* What the refresh of an OAuth credential promises, without calls,        *)
(* processes, gates and locks: a cell with an access and a refresh token.  *)
(* Its refresh token is exchanged by one client at a time, and the answer  *)
(* is stored over the very token it was obtained for, or not at all.       *)
(***************************************************************************)
EXTENDS Naturals

VARIABLES
  cell,     \* access and refresh token, 0 for none
  asked,    \* the refresh token that is with the provider
  answers,  \* the answer that is not yet stored
  used,     \* refresh tokens the provider has replaced
  gone,     \* those whose replacement nobody will store
  loose,    \* those of requests nobody waits for any more
  issued    \* tokens issued

svars == <<cell, asked, answers, used, gone, loose, issued>>

None == 0
Nothing == [a |-> None, r |-> None]

Init ==
  /\ cell = [a |-> 1, r |-> 1]
  /\ asked = {} /\ answers = {}
  /\ used = {} /\ gone = {} /\ loose = {}
  /\ issued = 1

Login(r) ==
  /\ issued' = issued + 1
  /\ r \in {None, issued'}
  /\ cell' = [a |-> issued', r |-> r]
  /\ UNCHANGED <<asked, answers, used, gone, loose>>

Remove ==
  /\ cell' = Nothing
  /\ UNCHANGED <<asked, answers, used, gone, loose, issued>>

\* Who read the two tokens across a login presents one but will not store.
Present(stores) ==
  /\ asked = {} /\ answers = {}
  /\ cell.r # None /\ cell.r \notin used \ gone
  /\ asked' = {cell.r}
  /\ gone' = IF stores THEN gone ELSE gone \union asked'
  /\ UNCHANGED <<cell, answers, used, loose, issued>>

\* With a new refresh token the old one is void.
Grant(t, r) ==
  /\ t \in asked \ used
  /\ issued' = issued + 1
  /\ r \in {None, issued'}
  /\ asked' = {}
  /\ answers' = {[to |-> t, a |-> issued', r |-> r]}
  /\ used' = IF r = None THEN used ELSE used \union {t}
  /\ UNCHANGED <<cell, gone, loose>>

Refuse ==
  /\ asked # {} /\ asked' = {}
  /\ UNCHANGED <<cell, answers, used, gone, loose, issued>>

Store(x) ==
  /\ x \in answers /\ cell.r = x.to
  /\ cell' = [a |-> x.a, r |-> IF x.r = None THEN x.to ELSE x.r]
  /\ answers' = {}
  /\ UNCHANGED <<asked, used, gone, loose, issued>>

\* The token in the cell is void if it was replaced and the new one discarded.
Discard(x, destroys) ==
  /\ x \in answers
  /\ answers' = {}
  /\ gone' = IF destroys THEN gone \union {x.to} ELSE gone
  /\ x.r # None /\ cell.r = x.to => x.to \in gone'
  /\ UNCHANGED <<cell, asked, used, loose, issued>>

Abandon(t) ==
  /\ t \in asked /\ asked' = {}
  /\ loose' = loose \union {t}
  /\ UNCHANGED <<cell, answers, used, gone, issued>>

\* Replaced too late.
GrantLoose(t) ==
  /\ t \in loose
  /\ loose' = loose \ {t}
  /\ used' = used \union {t}
  /\ gone' = IF t \in used THEN gone ELSE gone \union {t}
  /\ UNCHANGED <<cell, asked, answers, issued>>

Next ==
  \/ \E r \in {None, issued + 1} : Login(r) \/ \E t \in asked : Grant(t, r)
  \/ \E b \in BOOLEAN : Present(b) \/ \E x \in answers : Discard(x, b)
  \/ \E x \in answers : Store(x)
  \/ \E t \in asked : Abandon(t)
  \/ \E t \in loose : GrantLoose(t)
  \/ Remove \/ Refuse

Spec == Init /\ [][Next]_svars

=============================================================================
