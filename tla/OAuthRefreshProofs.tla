------------------------- MODULE OAuthRefreshProofs -------------------------
(***************************************************************************)
(* Proofs about OAuthRefresh, for every set of calls and processes, every  *)
(* masking and any number of tokens, faults and logins.                    *)
(***************************************************************************)
EXTENDS OAuthRefresh, TLAPS

-----------------------------------------------------------------------------
(* The inductive invariant                                                 *)

\* At most one call is behind the file lock.
LockOK == \A c, d \in Call : at[c] \in Locked /\ at[d] \in Locked => c = d

\* Tokens are numbered up to last.
NumbersOK ==
  /\ entry # NoEntry => entry.a <= last /\ entry.r <= last
  /\ \A t \in spent \union orphan : t <= last

\* A call that presents a token: the token is the one on disk together with
\* the access token the call read, or is on disk no more; it still works; and
\* the answer, new to everybody, derives from the same login.
CallOK(c) ==
  /\ Presents(c) =>
       /\ seen[c].r \in 1 .. last
       /\ entry # NoEntry /\ entry.r = seen[c].r /\ seen[c].r \notin torn => entry.a = seen[c].a
  /\ at[c] = "sent" => seen[c].r \notin spent \ Spoilt
  /\ at[c] = "accepted" =>
       /\ got[c].a \in 1 .. last /\ of[got[c].a] = of[seen[c].r]
       /\ got[c].r = 0 => seen[c].r \notin spent \ Spoilt
       /\ got[c].r # 0 =>
            /\ got[c].r \in 1 .. last /\ of[got[c].r] = of[seen[c].r]
            /\ got[c].r \notin spent \union orphan

SafeInv ==
  /\ LockOK
  /\ NumbersOK
  /\ \A c \in Call : CallOK(c)
  /\ WorksOrSpoilt
  /\ LatestLoginWins

AuthInv == AuthTypeOK /\ SafeInv

-----------------------------------------------------------------------------
(* Type correctness                                                        *)

LEMMA TokenFacts ==
  /\ Token \subseteq Nat
  /\ \A t, u \in Nat : u \in Token /\ t \in 1 .. u => t \in Token
  BY TokensAssumption DEF Token

\* Calls that leave keep the types of the locals.
LEMMA LeaveType ==
  ASSUME AuthTypeOK, NEW cs, Leave(cs)
  PROVE  /\ at' \in [Call -> {"idle", "gate", "ended"} \union Gated]
         /\ stored' \in [Call -> [mask: Nat, born: Nat, exp: Nat]]
         /\ seen' \in [Call -> [a: Nat, r: Nat]]
         /\ changed' \in [Call -> BOOLEAN]
         /\ got' \in [Call -> [a: Nat, r: Nat, exp: Nat]]
  BY DEF AuthTypeOK, Leave, NoMeta, NoTokens, NoAnswer

\* The tokens of calls that are abandoned were issued.
LEMMA AbandonType ==
  ASSUME AuthTypeOK, \A c \in Call : CallOK(c), NEW cs \in SUBSET Call, Abandon(cs)
  PROVE  orphan' \subseteq Token /\ lost' \subseteq Token
  <1>1. \A c \in Call : Presents(c) => seen[c].r \in Token
    BY TokensAssumption DEF CallOK, AuthTypeOK, Token
  <1>2. \A c \in Call : at[c] = "sent" \/ at[c] = "accepted" => seen[c].r \in Token
    BY <1>1 DEF Presents
  <1> QED
    BY <1>2 DEF Abandon, AuthTypeOK

\* What a commit writes is a credential.
LEMMA CommitType ==
  ASSUME AuthTypeOK, NEW c \in Call, CallOK(c), Commit(c)
  PROVE  /\ entry' \in Entry
         /\ Kept(got[c].exp, stored[c].exp) \in Nat
  <1>1. got[c].a \in Token /\ entry \in Entry
    BY TokensAssumption DEF Commit, Unmoved, CallOK, AuthTypeOK, Token
  <1>2. Kept(got[c].exp, stored[c].exp) \in Nat /\ Kept(got[c].r, entry.r) \in Nat
    BY <1>1 DEF Kept, AuthTypeOK, Entry
  <1> QED
    BY <1>1, <1>2 DEF Commit, Entry, AuthTypeOK

LEMMA TypeStep ==
  ASSUME AuthInv, [Next]_vars
  PROVE  AuthTypeOK'
  <1> USE TokensAssumption DEF AuthInv, callVars, providerVars, histVars
  <1>0. ASSUME NEW c \in Call, Leave({c}), UNCHANGED <<entry, latest, providerVars, faults, histVars>>
        PROVE  AuthTypeOK'
    BY <1>0, LeaveType DEF AuthTypeOK
  <1>m. entry # NoEntry => Meta \in [mask: Nat, born: Nat, exp: Nat] /\ entry.r \in Nat /\ entry.a \in Token
    BY MaskAssumption DEF AuthTypeOK, Meta, Entry
  <1>1. ASSUME NEW c \in Call, NotFound(c) \/ LockTimeout(c) \/ Refuse(c) \/ CommitRefused(c)
        PROVE  AuthTypeOK'
    BY <1>0, <1>1 DEF NotFound, LockTimeout, Refuse, CommitRefused
  <1>2. ASSUME NEW c \in Call, Load(c) PROVE AuthTypeOK'
    <2>1. CASE entry = NoEntry \/ entry.exp \notin due
      BY <1>0, <1>2, <2>1 DEF Load
    <2>2. CASE ~(entry = NoEntry \/ entry.exp \notin due)
      BY <1>m, <1>2, <2>2 DEF Load, Go, AuthTypeOK
    <2> QED
      BY <2>1, <2>2
  <1>3. ASSUME NEW c \in Call, EnterGate(c) PROVE AuthTypeOK'
    <2>1. CASE Applies(c, latest[Home[c]])
      BY <1>0, <1>3, <2>1 DEF EnterGate
    <2>2. CASE ~Applies(c, latest[Home[c]])
      BY <1>3, <2>2 DEF EnterGate, Go, AuthTypeOK, Gated
    <2> QED
      BY <2>1, <2>2
  <1>4. ASSUME NEW c \in Call, ReadAccess(c) PROVE AuthTypeOK'
    <2>1. entry.a \in Nat
      BY <1>m, <1>4 DEF ReadAccess, MissingAccess, Token
    <2>2. seen' \in [Call -> [a: Nat, r: Nat]]
      BY <1>4, <2>1 DEF ReadAccess, AuthTypeOK
    <2>3. at' \in [Call -> {"idle", "gate", "ended"} \union Gated]
      BY <1>4 DEF ReadAccess, Go, AuthTypeOK, Gated, Locked
    <2> QED
      BY <1>4, <2>2, <2>3 DEF ReadAccess, AuthTypeOK
  <1>5. ASSUME NEW c \in Call, ReadRefresh(c) PROVE AuthTypeOK'
    <2>1. entry # NoEntry /\ entry.r \in Token
      BY <1>m, <1>5 DEF ReadRefresh, MissingRefresh, SafeInv, NumbersOK, AuthTypeOK, Token
    <2>2. torn' \subseteq Token
      BY <1>5, <2>1 DEF ReadRefresh, AuthTypeOK
    <2>3. seen' \in [Call -> [a: Nat, r: Nat]] /\ at' \in [Call -> {"idle", "gate", "ended"} \union Gated]
      BY <1>m, <1>5, <2>1 DEF ReadRefresh, Go, AuthTypeOK, Gated, Locked
    <2> QED
      BY <1>5, <2>2, <2>3 DEF ReadRefresh, AuthTypeOK
  <1>6. ASSUME NEW c \in Call, TryLock(c) PROVE AuthTypeOK'
    BY <1>6 DEF TryLock, Go, AuthTypeOK, Gated, Locked
  <1>7. ASSUME NEW c \in Call, Reload(c) PROVE AuthTypeOK'
    BY <1>m, <1>7 DEF Reload, MissingAccess, Go, AuthTypeOK, Gated, Locked
  <1>8. ASSUME NEW c \in Call, CurrentAccess(c) PROVE AuthTypeOK'
    BY <1>8 DEF CurrentAccess, Go, AuthTypeOK, Gated, Locked
  <1>9. ASSUME NEW c \in Call, CurrentRefresh(c) PROVE AuthTypeOK'
    <2>1. CASE Leave({c})
      BY <1>0, <1>9, <2>1 DEF CurrentRefresh
    <2>2. CASE ~Leave({c})
      BY <1>9, <2>2 DEF CurrentRefresh, Go, AuthTypeOK, Gated, Locked
    <2> QED
      BY <2>1, <2>2
  <1>10. ASSUME NEW c \in Call, NEW rotates \in BOOLEAN, NEW expires \in BOOLEAN,
                Accept(c, rotates, expires)
         PROVE  AuthTypeOK'
    <2>1. seen[c].r \in Token /\ last + 1 \in Token
      BY <1>10 DEF Accept, SafeInv, CallOK, Presents, AuthTypeOK, Token
    <2>2. last' \in Token /\ spent' \subseteq Token /\ of' \in [Token -> Token]
      BY <1>10, <2>1 DEF Accept, AuthTypeOK
    <2>3. got' \in [Call -> [a: Nat, r: Nat, exp: Nat]]
      BY <1>10, <2>1 DEF Accept, AuthTypeOK, Token
    <2> QED
      BY <1>10, <2>2, <2>3 DEF Accept, Go, AuthTypeOK, Gated, Locked
  <1>11. ASSUME NEW c \in Call, Commit(c) PROVE AuthTypeOK'
    <2>3. entry' \in Entry /\ Kept(got[c].exp, stored[c].exp) \in Nat
      BY <1>11, CommitType DEF SafeInv
    <2>4. latest' \in [Process -> [a: Nat, exp: Nat]]
      BY <1>11, <2>3 DEF Commit, AuthTypeOK
    <2> QED
      BY <1>11, <2>3, <2>4, LeaveType DEF Commit, AuthTypeOK
  <1>12. ASSUME NEW c \in Call, Lose(c) \/ Drop(c) PROVE AuthTypeOK'
    <2>1. Abandon({c}) /\ Leave({c}) /\ faults' = faults + 1
      BY <1>12 DEF Lose, Drop, Fault
    <2>2. UNCHANGED <<entry, latest, last, due, spent, login, of, torn>>
      BY <1>12 DEF Lose, Drop
    <2>3. orphan' \subseteq Token /\ lost' \subseteq Token
      BY <2>1, AbandonType DEF SafeInv
    <2> QED
      BY <2>1, <2>2, <2>3, LeaveType DEF AuthTypeOK
  <1>13. ASSUME NEW p \in Process, Crash(p) PROVE AuthTypeOK'
    <2> DEFINE hit == {c \in Call : Home[c] = p /\ at[c] \notin {"idle", "ended"}}
    <2>1. Abandon(hit) /\ Leave(hit) /\ faults' = faults + 1
      BY <1>13 DEF Crash, Fault
    <2>2. orphan' \subseteq Token /\ lost' \subseteq Token
      BY <2>1, AbandonType DEF SafeInv
    <2>3. latest' \in [Process -> [a: Nat, exp: Nat]]
      BY <1>13 DEF Crash, AuthTypeOK
    <2> HIDE DEF hit
    <2> QED
      BY <1>13, <2>1, <2>2, <2>3, LeaveType DEF Crash, AuthTypeOK
  <1>14. ASSUME NEW t \in Token, AnswerOrphan(t) PROVE AuthTypeOK'
    BY <1>14 DEF AnswerOrphan, AuthTypeOK
  <1>15. ASSUME NEW refresh \in BOOLEAN, NEW expires \in BOOLEAN, Login(refresh, expires)
         PROVE  AuthTypeOK'
    <2>1. last + 1 \in Token /\ last + 1 \in Nat
      BY <1>15 DEF Login, AuthTypeOK, Token
    <2>2. entry' \in Entry
      BY <1>15, <2>1 DEF Login, Entry
    <2> QED
      BY <1>15, <2>1, <2>2 DEF Login, AuthTypeOK
  <1>16. ASSUME Remove \/ Expire PROVE AuthTypeOK'
    <2>1. CASE Remove
      BY <2>1 DEF Remove, AuthTypeOK
    <2>2. CASE Expire
      BY <2>2 DEF Expire, AuthTypeOK, Entry
    <2> QED
      BY <1>16, <2>1, <2>2
  <1>17. ASSUME UNCHANGED vars PROVE AuthTypeOK'
    BY <1>17 DEF vars, AuthTypeOK
  <1> QED
    BY <1>1, <1>2, <1>3, <1>4, <1>5, <1>6, <1>7, <1>8, <1>9, <1>10, <1>11, <1>12, <1>13,
       <1>14, <1>15, <1>16, <1>17
    DEF Next, Step

-----------------------------------------------------------------------------
(* Steps that leave the file and the provider alone                        *)

\* What the invariant says of a call that a step does not touch, when tokens
\* are only issued and no other call sends or answers.
LEMMA CallFrame ==
  ASSUME NEW c \in Call, AuthTypeOK, NumbersOK, CallOK(c),
         at'[c] = at[c], seen'[c] = seen[c], got'[c] = got[c],
         UNCHANGED <<entry, last, spent, orphan, of, lost>>,
         torn \subseteq torn'
  PROVE  CallOK(c)'
  BY DEF CallOK, Presents, Spoilt

\* A call that neither sends nor has its answer moves, or is abandoned.
LEMMA QuietStep ==
  ASSUME AuthInv, AuthTypeOK', NEW c \in Call,
         UNCHANGED <<entry, last, spent, orphan, of, lost, torn, login>>,
         \A d \in Call \ {c} : at'[d] = at[d] /\ seen'[d] = seen[d] /\ got'[d] = got[d],
         at'[c] \notin {"sent", "accepted"},
         at'[c] \in Locked => at[c] \in Locked \/ LockFree,
         at[c] = "accepted" => ~Unmoved(c)
  PROVE  SafeInv'
  <1> USE DEF AuthInv, SafeInv
  <1>1. LockOK'
    BY DEF LockOK, LockFree
  <1>2. NumbersOK'
    BY DEF NumbersOK
  <1>3. \A d \in Call \ {c} : CallOK(d)'
    BY CallFrame
  <1>4. CallOK(c)'
    BY DEF CallOK, Presents
  <1>5. WorksOrSpoilt'
    <2> SUFFICES ASSUME entry # NoEntry, entry.r \in spent \ Spoilt
                 PROVE  \E d \in Call : at'[d] = "accepted" /\ seen'[d].r = entry.r /\ Unmoved(d)'
      BY DEF WorksOrSpoilt, Spoilt
    <2>1. PICK d \in Call : at[d] = "accepted" /\ seen[d].r = entry.r /\ Unmoved(d)
      BY DEF WorksOrSpoilt
    <2>2. d # c
      BY <2>1
    <2> QED
      BY <2>1, <2>2 DEF Unmoved
  <1>6. LatestLoginWins'
    BY DEF LatestLoginWins
  <1> QED
    BY <1>1, <1>2, <1>3, <1>4, <1>5, <1>6

LEMMA LeaveFacts ==
  ASSUME AuthTypeOK, NEW cs, Leave(cs)
  PROVE  /\ \A d \in Call \ cs : at'[d] = at[d] /\ seen'[d] = seen[d] /\ got'[d] = got[d]
         /\ \A d \in Call : d \in cs => at'[d] = "ended"
  BY DEF Leave

LEMMA GoFacts ==
  ASSUME AuthTypeOK, NEW c \in Call, NEW label, Go(c, label)
  PROVE  /\ at'[c] = label
         /\ \A d \in Call \ {c} : at'[d] = at[d]
  BY DEF Go, AuthTypeOK

\* The steps of a call up to its request, and the ends that write nothing.
LEMMA CallStep ==
  ASSUME AuthInv, AuthTypeOK', NEW c \in Call,
         \/ NotFound(c) \/ Load(c) \/ EnterGate(c) \/ ReadAccess(c)
         \/ ReadRefresh(c) /\ at[c] = "observe2"
         \/ TryLock(c) \/ LockTimeout(c) \/ Reload(c) \/ CurrentAccess(c) \/ CurrentRefresh(c)
         \/ Refuse(c) \/ CommitRefused(c)
  PROVE  SafeInv'
  <1>1. UNCHANGED <<entry, last, spent, orphan, of, lost, torn, login>>
    BY DEF NotFound, Load, EnterGate, ReadAccess, ReadRefresh, TryLock, LockTimeout, Reload,
       CurrentAccess, CurrentRefresh, Refuse, CommitRefused, providerVars, histVars
  <1>2. at[c] = "accepted" => ~Unmoved(c)
    BY DEF NotFound, Load, EnterGate, ReadAccess, ReadRefresh, TryLock, LockTimeout, Reload,
       CurrentAccess, CurrentRefresh, Refuse, CommitRefused
  <1>3. CASE Leave({c})
    <2>1. /\ \A d \in Call \ {c} : at'[d] = at[d] /\ seen'[d] = seen[d] /\ got'[d] = got[d]
          /\ at'[c] = "ended"
      BY <1>3, LeaveFacts DEF AuthInv
    <2> QED
      BY <1>1, <1>2, <2>1, QuietStep DEF Locked
  <1>4. CASE ~Leave({c})
    <2>1. PICK label : Go(c, label) /\ label \notin {"sent", "accepted"}
                       /\ (label \in Locked => at[c] \in Locked \/ LockFree)
      <3>1. CASE Load(c) \/ EnterGate(c) \/ TryLock(c)
        BY <1>4, <3>1 DEF Load, EnterGate, TryLock, Locked
      <3>2. CASE ReadAccess(c)
        BY <3>2 DEF ReadAccess, Locked
      <3>3. CASE ReadRefresh(c) /\ at[c] = "observe2"
        BY <3>3 DEF ReadRefresh, Locked
      <3>4. CASE Reload(c) \/ CurrentAccess(c) \/ CurrentRefresh(c)
        BY <1>4, <3>4 DEF Reload, CurrentAccess, CurrentRefresh, Locked
      <3> QED
        BY <1>4, <3>1, <3>2, <3>3, <3>4 DEF NotFound, LockTimeout, Refuse, CommitRefused
    <2>2. \A d \in Call \ {c} : seen'[d] = seen[d] /\ got'[d] = got[d]
      BY <1>4 DEF NotFound, Load, EnterGate, ReadAccess, ReadRefresh, TryLock, LockTimeout, Reload,
         CurrentAccess, CurrentRefresh, Refuse, CommitRefused, AuthInv, AuthTypeOK
    <2>3. at'[c] = label /\ \A d \in Call \ {c} : at'[d] = at[d]
      BY <2>1, GoFacts DEF AuthInv
    <2> QED
      BY <1>1, <1>2, <2>1, <2>2, <2>3, QuietStep
  <1> QED
    BY <1>3, <1>4

-----------------------------------------------------------------------------
(* The exchange                                                            *)

\* Behind the file lock nobody else holds an answer: the token on disk works
\* when the request goes out with it.
LEMMA SendStep ==
  ASSUME AuthInv, AuthTypeOK', NEW c \in Call, ReadRefresh(c), at[c] # "observe2"
  PROVE  SafeInv'
  <1> USE DEF AuthInv, SafeInv
  <1>1. /\ at[c] = "before2" /\ entry # NoEntry /\ entry.r # 0
        /\ UNCHANGED <<entry, got, last, spent, orphan, of, lost, login>>
        /\ torn' = IF entry.a # seen[c].a THEN torn \union {entry.r} ELSE torn
        /\ Go(c, "sent")
    BY DEF ReadRefresh, MissingRefresh, providerVars
  <1>2. at'[c] = "sent" /\ \A d \in Call \ {c} : at'[d] = at[d]
    BY <1>1, GoFacts
  <1>3. /\ seen'[c].r = entry.r /\ seen'[c].a = seen[c].a
        /\ \A d \in Call \ {c} : seen'[d] = seen[d]
    BY DEF ReadRefresh, AuthTypeOK
  <1>4. \A d \in Call \ {c} : at[d] \notin Locked
    BY <1>1 DEF LockOK, Locked
  <1>5. LockOK'
    BY <1>2, <1>4 DEF LockOK
  <1>6. NumbersOK'
    BY <1>1 DEF NumbersOK
  <1>7. \A d \in Call \ {c} : CallOK(d)'
    BY <1>1, <1>2, <1>3, CallFrame
  <1>8. entry.r \notin spent \ Spoilt
    BY <1>1, <1>4 DEF WorksOrSpoilt, Locked
  <1>9. CallOK(c)'
    <2>1. entry.r \in 1 .. last
      BY <1>1 DEF NumbersOK, AuthTypeOK, Entry, Token
    <2>2. entry.r \notin torn' => entry.a = seen[c].a
      BY <1>1
    <2>3. entry.r \notin spent \ Spoilt'
      BY <1>1, <1>8 DEF Spoilt
    <2> QED
      BY <1>1, <1>2, <1>3, <2>1, <2>2, <2>3 DEF CallOK, Presents
  <1>10. WorksOrSpoilt'
    BY <1>1, <1>8 DEF WorksOrSpoilt, Spoilt
  <1>11. LatestLoginWins'
    BY <1>1 DEF LatestLoginWins
  <1> QED
    BY <1>5, <1>6, <1>7, <1>9, <1>10, <1>11

\* The provider replaces the token: the caller holds the replacement of what
\* is on disk.
LEMMA AcceptStep ==
  ASSUME AuthInv, AuthTypeOK', NEW c \in Call, NEW rotates \in BOOLEAN, NEW expires \in BOOLEAN,
         Accept(c, rotates, expires)
  PROVE  SafeInv'
  <1> USE DEF AuthInv, SafeInv
  <1>1. /\ at[c] = "sent" /\ seen[c].r \notin spent
        /\ UNCHANGED <<entry, seen, orphan, login, lost, torn>>
        /\ last' = last + 1 /\ last \in Nat /\ last + 1 \in Token
        /\ spent' = IF rotates THEN spent \union {seen[c].r} ELSE spent
        /\ Go(c, "accepted")
    BY DEF Accept, AuthTypeOK, Token
  <1>2. at'[c] = "accepted" /\ \A d \in Call \ {c} : at'[d] = at[d] /\ got'[d] = got[d]
    BY <1>1, GoFacts DEF Accept, AuthTypeOK
  <1>3. /\ got'[c].a = last + 1
        /\ got'[c].r = IF rotates THEN last + 1 ELSE 0
    BY DEF Accept, AuthTypeOK
  <1>4. /\ of'[last + 1] = of[seen[c].r]
        /\ \A t \in Token : t # last + 1 => of'[t] = of[t]
    BY <1>1 DEF Accept, AuthTypeOK
  <1>5. \A d \in Call \ {c} : at[d] \notin Locked
    BY <1>1 DEF LockOK, Locked
  <1>6. LockOK'
    BY <1>2, <1>5 DEF LockOK
  <1>7. seen[c].r \in 1 .. last
    BY <1>1 DEF CallOK, Presents
  <1>8. NumbersOK'
    <2>1. entry # NoEntry => entry.a \in Nat /\ entry.r \in Nat
      <3>1. entry # NoEntry => entry \in Entry
        BY DEF AuthTypeOK
      <3> QED
        BY <3>1, TokenFacts DEF Entry
    <2>2. \A t \in spent \union orphan : t \in Nat
      <3>1. spent \subseteq Token /\ orphan \subseteq Token
        BY DEF AuthTypeOK
      <3> QED
        BY <3>1, TokenFacts
    <2> QED
      BY <1>1, <1>7, <2>1, <2>2 DEF NumbersOK
  <1>9. \A d \in Call \ {c} : CallOK(d)'
    BY <1>2, <1>5 DEF CallOK, Presents, Locked
  <1>10. CallOK(c)'
    <2>1. last + 1 \notin spent' \union orphan
      BY <1>1, <1>7 DEF NumbersOK, AuthTypeOK, Token
    <2>2. of'[seen[c].r] = of[seen[c].r]
      <3>1. seen[c].r \in Token /\ seen[c].r # last + 1
        BY <1>1, <1>7, TokensAssumption DEF Token
      <3> QED
        BY <1>4, <3>1
    <2>3. entry # NoEntry /\ entry.r = seen[c].r /\ seen[c].r \notin torn => entry.a = seen[c].a
      BY <1>1 DEF CallOK, Presents
    <2>4. got'[c].r = 0 => spent' = spent
      BY <1>1, <1>3
    <2> QED
      BY <1>1, <1>2, <1>3, <1>4, <1>7, <2>1, <2>2, <2>3, <2>4 DEF CallOK, Presents, Spoilt
  <1>11. WorksOrSpoilt'
    <2> SUFFICES ASSUME entry # NoEntry, entry.r \in spent' \ Spoilt
                 PROVE  Unmoved(c) /\ seen[c].r = entry.r
      BY <1>1, <1>2 DEF WorksOrSpoilt, Spoilt, Unmoved
    <2>1. entry.r \notin spent
      BY <1>5, <1>1 DEF WorksOrSpoilt, Locked
    <2>2. entry.r = seen[c].r
      BY <1>1, <2>1
    <2>3. entry.a = seen[c].a
      BY <1>1, <2>2 DEF CallOK, Presents, Spoilt
    <2> QED
      BY <2>2, <2>3 DEF Unmoved
  <1>12. LatestLoginWins'
    <2> SUFFICES ASSUME entry # NoEntry
                 PROVE  of'[entry.a] = login /\ (entry.r # 0 => of'[entry.r] = login)
      BY <1>1 DEF LatestLoginWins
    <2>1. entry.a \in Token /\ entry.a # last + 1
      BY <1>1 DEF NumbersOK, AuthTypeOK, Entry
    <2>2. entry.r # 0 => entry.r \in Token /\ entry.r # last + 1
      <3>1. ASSUME entry.r # 0 PROVE entry.r \in 1 .. last
        BY <1>1, <3>1, TokensAssumption DEF NumbersOK, AuthTypeOK, Entry
      <3> QED
        <4>1. last \in Token /\ last \in Nat
          BY <1>1, TokenFacts DEF AuthTypeOK
        <4> QED
          BY <3>1, <4>1, TokenFacts
    <2> QED
      BY <1>4, <2>1, <2>2 DEF LatestLoginWins
  <1> QED
    BY <1>6, <1>8, <1>9, <1>10, <1>11, <1>12

\* The answer is written over exactly what it answers.
LEMMA CommitStep ==
  ASSUME AuthInv, AuthTypeOK', NEW c \in Call, Commit(c)
  PROVE  SafeInv'
  <1> USE DEF AuthInv, SafeInv
  <1>1. /\ at[c] = "accepted" /\ entry # NoEntry /\ entry.a = seen[c].a /\ entry.r = seen[c].r
        /\ UNCHANGED <<last, spent, orphan, login, of, lost, torn>>
        /\ entry'.a = got[c].a /\ entry'.r = Kept(got[c].r, entry.r)
        /\ Leave({c})
    BY DEF Commit, Unmoved, providerVars, histVars
  <1>2. /\ \A d \in Call \ {c} : at'[d] = at[d] /\ seen'[d] = seen[d] /\ got'[d] = got[d]
        /\ at'[c] = "ended"
    BY <1>1, LeaveFacts
  <1>3. \A d \in Call \ {c} : at[d] \notin Locked
    BY <1>1 DEF LockOK, Locked
  <1>4. LockOK'
    BY <1>2, <1>3 DEF LockOK, Locked
  <1>5. /\ got[c].a \in 1 .. last /\ of[got[c].a] = of[seen[c].r]
        /\ got[c].r = 0 => seen[c].r \notin spent \ Spoilt
        /\ got[c].r # 0 =>
             /\ got[c].r \in 1 .. last /\ of[got[c].r] = of[seen[c].r]
             /\ got[c].r \notin spent \union orphan
        /\ seen[c].r \in 1 .. last
    BY <1>1 DEF CallOK, Presents
  <1>6. entry' # NoEntry
    BY CommitType, NoEntryAssumption
  <1>7. NumbersOK'
    BY <1>1, <1>5 DEF NumbersOK, Kept, AuthTypeOK, Token
  <1>8. \A d \in Call : CallOK(d)'
    BY <1>2, <1>3 DEF CallOK, Presents, Locked
  <1>9. WorksOrSpoilt'
    BY <1>1, <1>5 DEF WorksOrSpoilt, Kept, Spoilt
  <1>10. LatestLoginWins'
    <2>1. of[seen[c].r] = login /\ login # 0
      BY <1>1, <1>5 DEF LatestLoginWins
    <2>2. entry'.r # 0 => of[entry'.r] = login
      BY <1>1, <1>5, <2>1 DEF Kept
    <2> QED
      BY <1>1, <1>5, <1>6, <2>1, <2>2 DEF LatestLoginWins
  <1> QED
    BY <1>4, <1>7, <1>8, <1>9, <1>10

-----------------------------------------------------------------------------
(* Faults, the user and time                                               *)

\* Calls are abandoned: an answer that is lost with its call takes the working
\* token of the login with it, and nothing else does.
LEMMA AbandonStep ==
  ASSUME AuthInv, AuthTypeOK', NEW cs \in SUBSET Call, Abandon(cs), Leave(cs),
         UNCHANGED <<entry, last, spent, of, torn, login>>
  PROVE  SafeInv'
  <1> USE DEF AuthInv, SafeInv
  <1>1. /\ \A d \in Call \ cs : at'[d] = at[d] /\ seen'[d] = seen[d] /\ got'[d] = got[d]
        /\ \A d \in cs : at'[d] = "ended"
    BY LeaveFacts
  <1>2. lost \subseteq lost' /\ orphan \subseteq orphan'
    BY DEF Abandon
  <1>3. LockOK'
    BY <1>1 DEF LockOK, Locked
  <1>4. \A t \in orphan' \ orphan : \E d \in cs : at[d] = "sent" /\ t = seen[d].r
    BY DEF Abandon
  <1>5. NumbersOK'
    <2>1. \A t \in orphan' \ orphan : t \in 1 .. last
      BY <1>4 DEF CallOK, Presents
    <2>2. \A t \in orphan' \ orphan : t <= last
      BY <2>1, TokenFacts DEF AuthTypeOK
    <2> QED
      BY <2>2 DEF NumbersOK
  <1>6. ASSUME NEW d \in Call PROVE CallOK(d)'
    <2>1. CASE d \in cs
      BY <1>1, <2>1 DEF CallOK, Presents
    <2>2. CASE d \notin cs
      <3>1. at[d] = "accepted" => orphan' = orphan
        <4> SUFFICES ASSUME at[d] = "accepted" PROVE \A e \in cs : at[e] # "sent"
          BY <1>2, <1>4
        <4> QED
          BY DEF LockOK, Locked
      <3> QED
        BY <1>1, <1>2, <2>2, <3>1 DEF CallOK, Presents, Spoilt
    <2> QED
      BY <2>1, <2>2
  <1>7. WorksOrSpoilt'
    <2> SUFFICES ASSUME entry # NoEntry, entry.r \in spent, entry.r \notin lost' \union torn
                 PROVE  \E d \in Call : at'[d] = "accepted" /\ seen'[d].r = entry.r /\ Unmoved(d)'
      BY DEF WorksOrSpoilt, Spoilt
    <2>1. PICK d \in Call : at[d] = "accepted" /\ seen[d].r = entry.r /\ Unmoved(d)
      BY <1>2 DEF WorksOrSpoilt, Spoilt
    <2>2. got[d].r # 0
      BY <1>2, <2>1 DEF CallOK, Spoilt
    <2>3. d \notin cs
      BY <2>1, <2>2 DEF Abandon
    <2> QED
      BY <1>1, <2>1, <2>3 DEF Unmoved
  <1>8. LatestLoginWins'
    BY DEF LatestLoginWins
  <1> QED
    BY <1>3, <1>5, <1>6, <1>7, <1>8

LEMMA FaultStep ==
  ASSUME AuthInv, AuthTypeOK',
         \/ \E c \in Call : Lose(c) \/ Drop(c)
         \/ \E p \in Process : Crash(p)
  PROVE  SafeInv'
  <1>1. CASE \E c \in Call : Lose(c) \/ Drop(c)
    <2>1. PICK c \in Call : Lose(c) \/ Drop(c)
      BY <1>1
    <2>2. Abandon({c}) /\ Leave({c}) /\ UNCHANGED <<entry, last, spent, of, torn, login>>
      BY <2>1 DEF Lose, Drop
    <2> QED
      BY <2>2, AbandonStep
  <1>2. CASE \E p \in Process : Crash(p)
    <2>1. PICK p \in Process : Crash(p)
      BY <1>2
    <2> DEFINE hit == {c \in Call : Home[c] = p /\ at[c] \notin {"idle", "ended"}}
    <2>2. /\ Abandon(hit) /\ Leave(hit) /\ hit \in SUBSET Call
          /\ UNCHANGED <<entry, last, spent, of, torn, login>>
      BY <2>1 DEF Crash
    <2> HIDE DEF hit
    <2> QED
      BY <2>2, AbandonStep
  <1> QED
    BY <1>1, <1>2

\* A late answer that nobody reads can only spoil the token it replaces.
LEMMA OrphanStep ==
  ASSUME AuthInv, AuthTypeOK', NEW t \in Token, AnswerOrphan(t)
  PROVE  SafeInv'
  <1> USE DEF AuthInv, SafeInv
  <1>1. /\ t \in orphan /\ orphan' = orphan \ {t} /\ spent' = spent \union {t}
        /\ lost' = IF t \in spent THEN lost ELSE lost \union {t}
        /\ UNCHANGED <<entry, at, seen, got, last, of, torn, login>>
    BY DEF AnswerOrphan, callVars
  <1>2. LockOK'
    BY <1>1 DEF LockOK
  <1>3. NumbersOK'
    BY <1>1 DEF NumbersOK
  <1>4. \A u : u \in spent' \ Spoilt' => u \in spent \ Spoilt
    BY <1>1 DEF Spoilt
  <1>5. spent' \union orphan' = spent \union orphan
    BY <1>1
  <1>6. ASSUME NEW c \in Call PROVE CallOK(c)'
    <2>1. CallOK(c)
      OBVIOUS
    <2> QED
      BY <1>1, <1>4, <1>5, <2>1 DEF CallOK, Presents
  <1>7. WorksOrSpoilt'
    BY <1>1, <1>4 DEF WorksOrSpoilt, Unmoved
  <1>8. LatestLoginWins'
    BY <1>1 DEF LatestLoginWins
  <1> QED
    BY <1>2, <1>3, <1>6, <1>7, <1>8

\* A login puts tokens on disk that nobody has seen.
LEMMA LoginStep ==
  ASSUME AuthInv, AuthTypeOK', NEW refresh \in BOOLEAN, NEW expires \in BOOLEAN,
         Login(refresh, expires)
  PROVE  SafeInv'
  <1> USE DEF AuthInv, SafeInv
  <1>1. /\ last' = last + 1 /\ last \in Nat /\ last + 1 \in Token
        /\ entry'.a = last + 1 /\ entry'.r = IF refresh THEN last + 1 ELSE 0
        /\ login' = last + 1
        /\ UNCHANGED <<at, seen, got, spent, orphan, lost, torn>>
    BY TokenFacts DEF Login, callVars, AuthTypeOK, Token
  <1>2. /\ of'[last + 1] = last + 1
        /\ \A t \in Token : t # last + 1 => of'[t] = of[t]
    BY <1>1 DEF Login, AuthTypeOK
  <1>3. entry' # NoEntry
    <2>1. entry' \in Entry
      BY <1>1 DEF Login, Entry
    <2> QED
      BY <2>1, NoEntryAssumption
  <1>4. LockOK'
    BY <1>1 DEF LockOK
  <1>5. \A t \in spent \union orphan : t \in 1 .. last
    <2>1. \A t \in spent \union orphan : t \in Token /\ t <= last
      BY DEF AuthTypeOK, NumbersOK
    <2> QED
      BY <1>1, <2>1, TokensAssumption DEF Token
  <1>6. NumbersOK'
    BY <1>1, <1>5 DEF NumbersOK
  <1>7. \A t : t \in 1 .. last => t \in Token /\ t # last + 1 /\ t \in 1 .. last' /\ of'[t] = of[t]
    BY <1>1, <1>2, TokensAssumption DEF Token
  <1>8. ASSUME NEW c \in Call PROVE CallOK(c)'
    <2>1. CallOK(c)
      OBVIOUS
    <2>2. Presents(c) => seen[c].r \in 1 .. last /\ seen[c].r # 0
      BY <1>1, <2>1 DEF CallOK
    <2>3. Presents(c) => entry'.r # seen[c].r
      BY <1>1, <1>7, <2>2
    <2>4. Presents(c) => seen[c].r \in 1 .. last' /\ of'[seen[c].r] = of[seen[c].r]
      BY <1>7, <2>2
    <2>5. at[c] = "accepted" => Presents(c)
      BY DEF Presents
    <2>6. at[c] = "accepted" => got[c].a \in 1 .. last' /\ of'[got[c].a] = of'[seen[c].r]
      BY <1>7, <2>1, <2>4, <2>5 DEF CallOK
    <2>7. at[c] = "accepted" /\ got[c].r # 0 =>
            got[c].r \in 1 .. last' /\ of'[got[c].r] = of'[seen[c].r]
      BY <1>7, <2>1, <2>4, <2>5 DEF CallOK
    <2> QED
      BY <1>1, <2>1, <2>3, <2>4, <2>6, <2>7 DEF CallOK, Presents, Spoilt
  <1>9. WorksOrSpoilt'
    <2>1. entry'.r \notin spent
      BY <1>1, <1>5
    <2> QED
      BY <1>1, <2>1 DEF WorksOrSpoilt, Spoilt
  <1>10. LatestLoginWins'
    BY <1>1, <1>2, <1>3 DEF LatestLoginWins
  <1> QED
    BY <1>4, <1>6, <1>8, <1>9, <1>10

\* Time passes, or nothing does.
LEMMA IdleStep ==
  ASSUME AuthInv, Expire \/ UNCHANGED vars
  PROVE  SafeInv'
  <1> USE DEF AuthInv, SafeInv
  <1>1. UNCHANGED <<entry, at, seen, got, last, spent, orphan, of, login, lost, torn>>
    BY DEF Expire, callVars, histVars, providerVars, vars
  <1>2. LockOK' /\ NumbersOK' /\ LatestLoginWins'
    BY <1>1 DEF LockOK, NumbersOK, LatestLoginWins
  <1>3. \A c \in Call : CallOK(c)'
    BY <1>1, CallFrame
  <1>4. WorksOrSpoilt'
    BY <1>1 DEF WorksOrSpoilt, Spoilt, Unmoved
  <1> QED
    BY <1>2, <1>3, <1>4

LEMMA RemoveStep ==
  ASSUME AuthInv, Remove
  PROVE  SafeInv'
  <1> USE DEF AuthInv, SafeInv
  <1>1. /\ entry' = NoEntry /\ login' = 0
        /\ UNCHANGED <<at, seen, got, last, spent, orphan, of, lost, torn>>
    BY DEF Remove, callVars, providerVars
  <1>2. LockOK' /\ NumbersOK' /\ LatestLoginWins' /\ WorksOrSpoilt'
    BY <1>1 DEF LockOK, NumbersOK, LatestLoginWins, WorksOrSpoilt
  <1>3. \A c \in Call : CallOK(c)'
    BY <1>1 DEF CallOK, Presents, Spoilt
  <1> QED
    BY <1>2, <1>3

-----------------------------------------------------------------------------
(* The theorems                                                            *)

LEMMA InvStep == AuthInv /\ [Next]_vars => AuthInv'
  <1> SUFFICES ASSUME AuthInv, [Next]_vars PROVE SafeInv'
    BY TypeStep DEF AuthInv
  <1>1. AuthTypeOK'
    BY TypeStep
  <1>2. CASE \E c \in Call : Load(c) \/ Step(c) \/ Refuse(c)
    <2>1. PICK c \in Call : Load(c) \/ Step(c) \/ Refuse(c)
      BY <1>2
    <2>2. CASE ReadRefresh(c) /\ at[c] # "observe2"
      BY <1>1, <2>2, SendStep
    <2>3. CASE Commit(c)
      BY <1>1, <2>3, CommitStep
    <2>4. CASE ~(ReadRefresh(c) /\ at[c] # "observe2") /\ ~Commit(c)
      BY <1>1, <2>1, <2>4, CallStep DEF Step
    <2> QED
      BY <2>2, <2>3, <2>4
  <1>3. CASE \E c \in Call : \E rotates, expires \in BOOLEAN : Accept(c, rotates, expires)
    BY <1>1, <1>3, AcceptStep
  <1>4. CASE \/ \E c \in Call : Lose(c) \/ Drop(c)
             \/ \E p \in Process : Crash(p)
    BY <1>1, <1>4, FaultStep
  <1>5. CASE \E t \in Token : AnswerOrphan(t)
    BY <1>1, <1>5, OrphanStep
  <1>6. CASE \E refresh, expires \in BOOLEAN : Login(refresh, expires)
    BY <1>1, <1>6, LoginStep
  <1>7. CASE Remove
    BY <1>7, RemoveStep
  <1>8. CASE Expire \/ UNCHANGED vars
    BY <1>8, IdleStep
  <1> QED
    BY <1>2, <1>3, <1>4, <1>5, <1>6, <1>7, <1>8 DEF Next

LEMMA InitInv == Init => AuthInv
  <1> SUFFICES ASSUME Init PROVE AuthInv
    OBVIOUS
  <1>1. 1 \in Token /\ 1 \in Nat /\ 0 \in Nat
    BY TokensAssumption DEF Token
  <1>2. entry \in Entry
    BY <1>1 DEF Init, Entry
  <1>3. AuthTypeOK
    BY <1>1, <1>2 DEF Init, AuthTypeOK, NoMeta, NoTokens, NoAnswer
  <1>4. entry # NoEntry
    BY <1>2, NoEntryAssumption
  <1>5. SafeInv
    BY <1>1, <1>4 DEF Init, SafeInv, LockOK, Locked, NumbersOK, CallOK, Presents, WorksOrSpoilt,
       LatestLoginWins
  <1> QED
    BY <1>3, <1>5 DEF AuthInv

\* The lock, the numbering of tokens, the calls in flight and the credential on
\* disk agree in every reachable state.
THEOREM AuthCorrect == Spec => []AuthInv
  BY InitInv, InvStep, PTL DEF Spec

\* What is on disk, in the calls and in the histories keeps its type.
THEOREM AuthTypeCorrect == Spec => []AuthTypeOK
  <1>1. AuthInv => AuthTypeOK
    BY DEF AuthInv
  <1> QED
    BY <1>1, AuthCorrect, PTL

\* No refresh token is presented by two calls at once, of one process or of
\* several, or after it was replaced.
THEOREM ConsumedOnceCorrect == Spec => []ConsumedOnce
  <1>1. AuthInv => ConsumedOnce
    <2> SUFFICES ASSUME AuthInv, NEW c \in Call, Presents(c)
                 PROVE  /\ \A d \in Call \ {c} : ~Presents(d)
                        /\ at[c] = "sent" => seen[c].r \notin spent \ Spoilt
      BY DEF ConsumedOnce
    <2> QED
      BY DEF AuthInv, SafeInv, LockOK, Locked, CallOK, Presents
  <1> QED
    BY <1>1, AuthCorrect, PTL

\* Tokens are lost by faults; a call that reads across a login finds the first
\* token of that login.
OriginOK ==
  /\ lost # {} \/ orphan # {} => faults > 0
  /\ \A t \in torn : t <= last /\ of[t] = t
  /\ \A c \in Call : at[c] = "before2" /\ entry # NoEntry =>
       entry.a = seen[c].a \/ entry.r = 0 \/ of[entry.r] = entry.r

\* A step that leaves the credential and the books alone, and in which no call
\* gets between its two loads.
LEMMA OriginFrame ==
  ASSUME OriginOK, UNCHANGED <<entry, last, of, lost, orphan, torn, faults>>,
         \A c \in Call : at'[c] = "before2" => at[c] = "before2" /\ seen'[c] = seen[c]
  PROVE  OriginOK'
  BY DEF OriginOK

\* The calls that a fault hits end, and leave the others as they are.
LEMMA OriginFault ==
  ASSUME AuthInv, OriginOK, NEW cs, Leave(cs), faults' = faults + 1,
         UNCHANGED <<entry, last, of, torn>>
  PROVE  OriginOK'
  <1>1. faults' > 0
    BY DEF AuthInv, AuthTypeOK
  <1>2. \A c \in Call : at'[c] = "before2" => at[c] = "before2" /\ seen'[c] = seen[c]
    BY LeaveFacts DEF AuthInv
  <1> QED
    BY <1>1, <1>2 DEF OriginOK

LEMMA OriginStep ==
  ASSUME AuthInv, OriginOK, [Next]_vars
  PROVE  OriginOK'
  <1> USE DEF AuthInv, SafeInv
  <1>1. ASSUME NEW c \in Call, Leave({c}), UNCHANGED <<entry, providerVars, faults, histVars>>
        PROVE  OriginOK'
    <2>1. \A d \in Call : at'[d] = "before2" => at[d] = "before2" /\ seen'[d] = seen[d]
      BY <1>1, LeaveFacts
    <2> QED
      BY <1>1, <2>1, OriginFrame DEF providerVars, histVars
  <1>2. ASSUME NEW c \in Call, NEW label, label # "before2", Go(c, label),
               \A d \in Call \ {c} : seen'[d] = seen[d],
               UNCHANGED <<entry, providerVars, faults, histVars>>
        PROVE  OriginOK'
    <2>1. \A d \in Call : at'[d] = "before2" => at[d] = "before2" /\ seen'[d] = seen[d]
      BY <1>2, GoFacts
    <2> QED
      BY <1>2, <2>1, OriginFrame DEF providerVars, histVars
  <1>3. ASSUME NEW c \in Call, NotFound(c) \/ LockTimeout(c) \/ Refuse(c) \/ CommitRefused(c)
        PROVE  OriginOK'
    BY <1>1, <1>3 DEF NotFound, LockTimeout, Refuse, CommitRefused
  <1>4. ASSUME NEW c \in Call, Load(c) \/ EnterGate(c) \/ CurrentRefresh(c) PROVE OriginOK'
    <2>1. CASE Leave({c})
      BY <1>1, <1>4, <2>1 DEF Load, EnterGate, CurrentRefresh
    <2>2. CASE ~Leave({c})
      BY <1>2, <1>4, <2>2 DEF Load, EnterGate, CurrentRefresh
    <2> QED
      BY <2>1, <2>2
  <1>5. ASSUME NEW c \in Call, TryLock(c) \/ Reload(c) \/ CurrentAccess(c) PROVE OriginOK'
    BY <1>2, <1>5 DEF TryLock, Reload, CurrentAccess
  <1>6. ASSUME NEW c \in Call, ReadAccess(c) PROVE OriginOK'
    <2>1. \A d \in Call \ {c} : at'[d] = at[d] /\ seen'[d] = seen[d]
      BY <1>6, GoFacts DEF ReadAccess, AuthTypeOK
    <2>2. seen'[c].a = entry.a /\ UNCHANGED <<entry, last, of, lost, orphan, torn, faults>>
      BY <1>6 DEF ReadAccess, AuthTypeOK, providerVars, histVars
    <2> QED
      BY <2>1, <2>2 DEF OriginOK
  <1>7. ASSUME NEW c \in Call, ReadRefresh(c) PROVE OriginOK'
    <2>1. /\ \A d \in Call \ {c} : at'[d] = at[d] /\ seen'[d] = seen[d]
          /\ at'[c] # "before2"
      BY <1>7, GoFacts DEF ReadRefresh, AuthTypeOK
    <2>2. /\ UNCHANGED <<entry, last, of, lost, orphan, faults>>
          /\ entry # NoEntry /\ entry.r # 0
          /\ torn' = IF at[c] = "before2" /\ entry.a # seen[c].a
                     THEN torn \union {entry.r} ELSE torn
      BY <1>7 DEF ReadRefresh, MissingRefresh, providerVars
    <2>3. \A t \in torn' : t <= last /\ of[t] = t
      BY <2>2 DEF OriginOK, NumbersOK
    <2> QED
      BY <2>1, <2>2, <2>3 DEF OriginOK
  <1>8. ASSUME NEW c \in Call, NEW rotates \in BOOLEAN, NEW expires \in BOOLEAN,
               Accept(c, rotates, expires)
        PROVE  OriginOK'
    <2>1. /\ \A d \in Call \ {c} : at'[d] = at[d]
          /\ at'[c] # "before2"
          /\ UNCHANGED <<entry, seen, lost, orphan, torn, faults>>
          /\ last' = last + 1 /\ of' = [of EXCEPT ![last'] = of[seen[c].r]]
      BY <1>8, GoFacts DEF Accept
    <2>2. last \in Nat
      BY TokensAssumption DEF AuthTypeOK, Token
    <2>3. \A t \in Token : t <= last => t <= last' /\ of'[t] = of[t]
      BY <2>1, <2>2, TokensAssumption DEF AuthTypeOK, Token
    <2>4. \A t \in torn : t <= last' /\ of'[t] = t
      BY <2>3 DEF OriginOK, AuthTypeOK
    <2>5. ASSUME entry # NoEntry, entry.r # 0 PROVE entry.r \in Token /\ entry.r <= last
      <3>1. entry \in Entry /\ entry.r <= last
        BY <2>5 DEF NumbersOK, AuthTypeOK
      <3>2. entry.r \in Nat
        BY <3>1 DEF Entry
      <3>3. last \in 1 .. MaxTokens
        BY DEF AuthTypeOK, Token
      <3> QED
        BY <2>5, <3>1, <3>2, <3>3, TokensAssumption DEF Token
    <2> QED
      BY <2>1, <2>3, <2>4, <2>5 DEF OriginOK
  <1>9. ASSUME NEW c \in Call, Commit(c) PROVE OriginOK'
    <2>1. Leave({c}) /\ at[c] \in Locked
          /\ UNCHANGED <<last, of, lost, orphan, torn, faults>>
      BY <1>9 DEF Commit, Locked, providerVars, histVars
    <2>2. \A d \in Call : at'[d] # "before2"
      BY <2>1, LeaveFacts DEF LockOK, Locked
    <2> QED
      BY <2>1, <2>2 DEF OriginOK
  <1>10. ASSUME NEW c \in Call, Lose(c) \/ Drop(c) PROVE OriginOK'
    BY <1>10, OriginFault DEF Lose, Drop, Fault
  <1>11. ASSUME NEW p \in Process, Crash(p) PROVE OriginOK'
    <2>1. PICK hit \in SUBSET Call : Leave(hit)
      BY <1>11 DEF Crash
    <2> QED
      BY <1>11, <2>1, OriginFault DEF Crash, Fault
  <1>12. ASSUME NEW t \in Token, AnswerOrphan(t) PROVE OriginOK'
    BY <1>12 DEF AnswerOrphan, callVars, OriginOK
  <1>13. ASSUME NEW refresh \in BOOLEAN, NEW expires \in BOOLEAN, Login(refresh, expires)
         PROVE  OriginOK'
    <2>1. /\ last' = last + 1 /\ last' \in Token /\ of' = [of EXCEPT ![last'] = last']
          /\ entry'.r = 0 \/ entry'.r = last'
          /\ UNCHANGED <<at, seen, lost, orphan, torn, faults>>
      BY <1>13, TokensAssumption DEF Login, callVars, AuthTypeOK, Token
    <2>2. last \in Nat
      BY TokensAssumption DEF AuthTypeOK, Token
    <2>3. \A t \in torn : t <= last' /\ of'[t] = t
      BY <2>1, <2>2, TokensAssumption DEF OriginOK, AuthTypeOK, Token
    <2>4. of'[last'] = last'
      BY <2>1 DEF AuthTypeOK
    <2> QED
      BY <2>1, <2>3, <2>4 DEF OriginOK
  <1>14. ASSUME Remove PROVE OriginOK'
    BY <1>14 DEF Remove, callVars, providerVars, OriginOK
  <1>15. ASSUME Expire \/ UNCHANGED vars PROVE OriginOK'
    BY <1>15, OriginFrame DEF Expire, vars, callVars, providerVars, histVars
  <1> QED
    BY <1>3, <1>4, <1>5, <1>6, <1>7, <1>8, <1>9, <1>10, <1>11, <1>12, <1>13, <1>14, <1>15
       DEF Next, Step

\* The refresh token on disk works, or the call that holds its replacement is
\* about to write it, or the login is lost: by a fault that took the
\* replacement, or because it came between the two loads of a snapshot, and then
\* it is the login's first token.
THEOREM LossCorrect == Spec => []LossIsExplained
  <1>1. Init => OriginOK
    BY DEF Init, OriginOK
  <1>2. AuthInv /\ OriginOK => LossIsExplained
    BY DEF AuthInv, SafeInv, OriginOK, LossIsExplained
  <1> QED
    BY <1>1, <1>2, OriginStep, AuthCorrect, PTL DEF Spec

\* No answer that comes late restores what the user removed or replaced.
THEOREM LatestLoginCorrect == Spec => []LatestLoginWins
  <1>1. AuthInv => LatestLoginWins
    BY DEF AuthInv, SafeInv
  <1> QED
    BY <1>1, AuthCorrect, PTL


-----------------------------------------------------------------------------
(* OAuthRefresh implements CredentialCell                                  *)

\* Only the call behind the file lock can be with the provider.
LEMMA Alone ==
  ASSUME AuthInv, NEW c \in Call, at[c] \in Locked
  PROVE  \A d \in Call \ {c} : at[d] \notin Locked /\ at[d] # "sent" /\ at[d] # "accepted"
  BY DEF AuthInv, SafeInv, LockOK, Locked

LEMMA AskedBy ==
  ASSUME AuthInv, NEW c \in Call, at[c] = "sent"
  PROVE  Asked = {seen[c].r} /\ Answers = {}
  <1>1. {d \in Call : at[d] = "sent"} = {c} /\ {d \in Call : at[d] = "accepted"} = {}
    BY Alone DEF Locked
  <1> QED
    BY <1>1 DEF Asked, Answers

Answer(c) == [to |-> seen[c].r, a |-> got[c].a, r |-> got[c].r]

LEMMA AnswerOf ==
  ASSUME AuthInv, NEW c \in Call, at[c] = "accepted"
  PROVE  Asked = {} /\ Answers = {Answer(c)}
  <1>1. {d \in Call : at[d] = "sent"} = {} /\ {d \in Call : at[d] = "accepted"} = {c}
    BY Alone DEF Locked
  <1> QED
    BY <1>1 DEF Asked, Answers, Answer

\* After a step that leaves nobody with the provider.
LEMMA NobodyAsks ==
  ASSUME \A d \in Call : at'[d] # "sent" /\ at'[d] # "accepted"
  PROVE  Asked' = {} /\ Answers' = {}
  <1>1. {d \in Call : at'[d] = "sent"} = {} /\ {d \in Call : at'[d] = "accepted"} = {}
    OBVIOUS
  <1> QED
    BY <1>1 DEF Asked, Answers

\* A step of calls that are not with the provider, and do not get there.
LEMMA CellFrame ==
  ASSUME \A d \in Call : at'[d] = "sent" <=> at[d] = "sent",
         \A d \in Call : at'[d] = "accepted" <=> at[d] = "accepted",
         \A d \in Call : Presents(d) => seen'[d] = seen[d] /\ got'[d] = got[d]
  PROVE  UNCHANGED <<Asked, Answers>>
  <1>1. /\ {d \in Call : at'[d] = "sent"} = {d \in Call : at[d] = "sent"}
        /\ {d \in Call : at'[d] = "accepted"} = {d \in Call : at[d] = "accepted"}
    OBVIOUS
  <1>2. Asked' = Asked
    BY <1>1 DEF Asked, Presents
  <1>3. Answers' = Answers
    BY <1>1 DEF Answers, Presents
  <1> QED
    BY <1>2, <1>3

LEMMA CellKept ==
  ASSUME UNCHANGED <<Asked, Answers>>,
         UNCHANGED <<entry, last, spent, orphan, lost, torn>>
  PROVE  UNCHANGED Cell!svars
  BY DEF Cell!svars, OnDisk, Spoilt

LEMMA CellQuiet ==
  ASSUME AuthInv, NEW c \in Call,
         \/ NotFound(c) \/ Load(c) \/ EnterGate(c) \/ ReadAccess(c)
         \/ ReadRefresh(c) /\ at[c] = "observe2"
         \/ TryLock(c) \/ LockTimeout(c) \/ Reload(c) \/ CurrentAccess(c) \/ CurrentRefresh(c)
  PROVE  UNCHANGED Cell!svars
  <1>1. UNCHANGED <<entry, last, spent, orphan, lost, torn>>
    BY DEF NotFound, Load, EnterGate, ReadAccess, ReadRefresh, TryLock, LockTimeout, Reload,
       CurrentAccess, CurrentRefresh, providerVars, histVars
  <1>2. ~Presents(c)
    BY DEF NotFound, Load, EnterGate, ReadAccess, ReadRefresh, TryLock, LockTimeout, Reload,
       CurrentAccess, CurrentRefresh, Presents
  <1>3. /\ at'[c] # "sent" /\ at'[c] # "accepted"
        /\ \A d \in Call \ {c} : at'[d] = at[d] /\ seen'[d] = seen[d] /\ got'[d] = got[d]
    <2>1. CASE Leave({c})
      BY <2>1, LeaveFacts DEF AuthInv
    <2>2. CASE ~Leave({c})
      <3>1. \A d \in Call \ {c} : seen'[d] = seen[d] /\ got'[d] = got[d]
        BY <2>2 DEF NotFound, Load, EnterGate, ReadAccess, ReadRefresh, TryLock, LockTimeout, Reload,
           CurrentAccess, CurrentRefresh, AuthInv, AuthTypeOK
      <3>2. PICK label : Go(c, label) /\ label \notin {"sent", "accepted"}
        BY <2>2 DEF NotFound, Load, EnterGate, ReadAccess, ReadRefresh, TryLock, LockTimeout, Reload,
           CurrentAccess, CurrentRefresh
      <3> QED
        BY <3>1, <3>2, GoFacts DEF AuthInv
    <2> QED
      BY <2>1, <2>2
  <1>4. UNCHANGED <<Asked, Answers>>
    BY <1>2, <1>3, CellFrame DEF Presents
  <1> QED
    BY <1>1, <1>4, CellKept

\* The request goes out with the token on disk, behind the lock.
LEMMA CellPresent ==
  ASSUME AuthInv, AuthInv', NEW c \in Call, ReadRefresh(c), at[c] # "observe2"
  PROVE  Cell!Present(entry.a = seen[c].a)
  <1>1. /\ at[c] = "before2" /\ entry # NoEntry /\ entry.r # 0
        /\ UNCHANGED <<entry, last, spent, orphan, lost>>
        /\ torn' = IF entry.a # seen[c].a THEN torn \union {entry.r} ELSE torn
        /\ Go(c, "sent") /\ seen'[c].r = entry.r
    BY DEF ReadRefresh, MissingRefresh, providerVars, AuthInv, AuthTypeOK
  <1>2. \A d \in Call : at[d] # "sent" /\ at[d] # "accepted"
    BY <1>1, Alone DEF Locked
  <1>3. Asked = {} /\ Answers = {}
    BY <1>2 DEF Asked, Answers
  <1>4. at'[c] = "sent" /\ \A d \in Call \ {c} : at'[d] = at[d]
    BY <1>1, GoFacts DEF AuthInv
  <1>5. {d \in Call : at'[d] = "sent"} = {c} /\ {d \in Call : at'[d] = "accepted"} = {}
    BY <1>2, <1>4
  <1>6. Asked' = {entry.r} /\ Answers' = {}
    BY <1>1, <1>5 DEF Asked, Answers
  <1>7. entry.r \notin spent \ Spoilt
    BY <1>1, <1>2 DEF AuthInv, SafeInv, WorksOrSpoilt
  <1>8. Spoilt' = IF entry.a = seen[c].a THEN Spoilt ELSE Spoilt \union {entry.r}
    BY <1>1 DEF Spoilt
  <1>9. OnDisk.r = entry.r /\ OnDisk' = OnDisk
    BY <1>1 DEF OnDisk
  <1> QED
    BY <1>1, <1>3, <1>6, <1>7, <1>8, <1>9 DEF Cell!Present, Cell!None

LEMMA CellGrant ==
  ASSUME AuthInv, NEW c \in Call, NEW rotates \in BOOLEAN, NEW expires \in BOOLEAN,
         Accept(c, rotates, expires)
  PROVE  Cell!Grant(seen[c].r, IF rotates THEN last + 1 ELSE 0)
  <1>1. /\ at[c] = "sent" /\ seen[c].r \notin spent
        /\ UNCHANGED <<entry, seen, orphan, lost, torn>>
        /\ last' = last + 1 /\ last \in Nat
        /\ spent' = IF rotates THEN spent \union {seen[c].r} ELSE spent
        /\ Go(c, "accepted")
    BY TokenFacts DEF Accept, AuthInv, AuthTypeOK
  <1>2. /\ at'[c] = "accepted" /\ \A d \in Call \ {c} : at'[d] = at[d]
        /\ got'[c].a = last + 1 /\ got'[c].r = IF rotates THEN last + 1 ELSE 0
    BY <1>1, GoFacts DEF Accept, AuthInv, AuthTypeOK
  <1>3. \A d \in Call \ {c} : at[d] # "sent" /\ at[d] # "accepted"
    BY <1>1, Alone DEF Locked
  <1>4. {d \in Call : at'[d] = "sent"} = {} /\ {d \in Call : at'[d] = "accepted"} = {c}
    BY <1>2, <1>3
  <1>5. Asked = {seen[c].r}
    BY <1>1, AskedBy
  <1>6. Asked' = {}
    BY <1>4 DEF Asked
  <1>7. Answers' = {[to |-> seen[c].r, a |-> last + 1, r |-> IF rotates THEN last + 1 ELSE 0]}
    BY <1>1, <1>2, <1>4 DEF Answers
  <1>8. UNCHANGED <<OnDisk, Spoilt>>
    BY <1>1 DEF OnDisk, Spoilt
  <1> QED
    BY <1>1, <1>5, <1>6, <1>7, <1>8 DEF Cell!Grant, Cell!None

\* A call leaves that was with the provider: nobody is there any more.
LEMMA CellLeft ==
  ASSUME AuthInv, NEW cs \in SUBSET Call, Leave(cs), NEW c \in cs, Presents(c)
  PROVE  Asked' = {} /\ Answers' = {}
  <1>1. \A d \in Call \ {c} : at[d] # "sent" /\ at[d] # "accepted"
    BY Alone DEF Locked, Presents
  <1>2. \A d \in Call : at'[d] # "sent" /\ at'[d] # "accepted"
    BY <1>1, LeaveFacts DEF AuthInv
  <1> QED
    BY <1>2, NobodyAsks

LEMMA CellRefuse ==
  ASSUME AuthInv, NEW c \in Call, Refuse(c)
  PROVE  Cell!Refuse
  <1>1. /\ at[c] = "sent" /\ Leave({c})
        /\ UNCHANGED <<entry, last, spent, orphan, lost, torn>>
    BY DEF Refuse, providerVars, histVars
  <1>2. Asked = {seen[c].r} /\ Answers = {} /\ Asked' = {} /\ Answers' = {}
    BY <1>1, AskedBy, CellLeft DEF Presents
  <1> QED
    BY <1>1, <1>2 DEF Cell!Refuse, OnDisk, Spoilt

\* The commit compares the refresh token with the one it was obtained for.
LEMMA CellStore ==
  ASSUME AuthInv, NEW c \in Call, Commit(c)
  PROVE  Cell!Store(Answer(c))
  <1>1. /\ at[c] = "accepted" /\ entry # NoEntry /\ entry.r = seen[c].r
        /\ UNCHANGED <<last, spent, orphan, lost, torn>>
        /\ entry'.a = got[c].a /\ entry'.r = Kept(got[c].r, entry.r)
        /\ Leave({c})
    BY DEF Commit, Unmoved, providerVars, histVars
  <1>2. entry' # NoEntry
    BY CommitType, NoEntryAssumption DEF AuthInv, SafeInv
  <1>3. Asked = {} /\ Answers = {Answer(c)} /\ Asked' = {} /\ Answers' = {}
    BY <1>1, AnswerOf, CellLeft DEF Presents
  <1>4. OnDisk.r = Answer(c).to
    BY <1>1 DEF OnDisk, Answer
  <1>5. OnDisk' = [a |-> Answer(c).a, r |-> IF Answer(c).r = 0 THEN Answer(c).to ELSE Answer(c).r]
    BY <1>1, <1>2 DEF OnDisk, Answer, Kept
  <1> QED
    BY <1>1, <1>3, <1>4, <1>5 DEF Cell!Store, Cell!None, Spoilt

\* An answer that comes too late is for a token that is on disk no more, or
\* was asked for by a call that read across a login.
LEMMA CellRefused ==
  ASSUME AuthInv, NEW c \in Call, CommitRefused(c)
  PROVE  Cell!Discard(Answer(c), FALSE)
  <1>1. /\ at[c] = "accepted" /\ ~Unmoved(c) /\ Leave({c})
        /\ UNCHANGED <<entry, last, spent, orphan, lost, torn>>
    BY DEF CommitRefused, providerVars, histVars
  <1>2. Asked = {} /\ Answers = {Answer(c)} /\ Asked' = {} /\ Answers' = {}
    BY <1>1, AnswerOf, CellLeft DEF Presents
  <1>3. seen[c].r \in 1 .. last /\ last \in Nat
    BY <1>1, TokenFacts DEF AuthInv, SafeInv, CallOK, Presents, AuthTypeOK
  <1>4. OnDisk.r = seen[c].r => seen[c].r \in Spoilt
    <2> SUFFICES ASSUME OnDisk.r = seen[c].r, seen[c].r \notin torn PROVE FALSE
      BY DEF Spoilt
    <2>1. entry # NoEntry /\ entry.r = seen[c].r
      BY <1>3 DEF OnDisk
    <2>2. entry.a = seen[c].a
      BY <1>1, <2>1 DEF AuthInv, SafeInv, CallOK, Presents
    <2> QED
      BY <1>1, <2>1, <2>2 DEF Unmoved
  <1>5. Spoilt' = Spoilt /\ OnDisk' = OnDisk /\ Answer(c).to = seen[c].r
    BY <1>1 DEF Spoilt, OnDisk, Answer
  <1> QED
    BY <1>1, <1>2, <1>4, <1>5 DEF Cell!Discard

\* Calls are abandoned, of which at most one is with the provider.
LEMMA CellAbandon ==
  ASSUME AuthInv, NEW cs \in SUBSET Call, Abandon(cs), Leave(cs),
         UNCHANGED <<entry, last, spent, torn>>
  PROVE  [Cell!Next]_Cell!svars
  <1>1. CASE \E c \in cs : at[c] = "sent"
    <2>1. PICK c \in cs : at[c] = "sent"
      BY <1>1
    <2>2. {d \in cs : at[d] = "sent"} = {c} /\ {d \in cs : at[d] = "accepted" /\ got[d].r # 0} = {}
      BY <2>1, Alone DEF Locked
    <2>3. orphan' = orphan \union {seen[c].r} /\ lost' = lost
      BY <2>2 DEF Abandon
    <2>4. Asked = {seen[c].r} /\ Answers = {} /\ Asked' = {} /\ Answers' = {}
      BY <2>1, AskedBy, CellLeft DEF Presents
    <2>5. Cell!Abandon(seen[c].r)
      BY <2>3, <2>4 DEF Cell!Abandon, OnDisk, Spoilt
    <2> QED
      BY <2>4, <2>5 DEF Cell!Next
  <1>2. CASE \E c \in cs : at[c] = "accepted"
    <2>1. PICK c \in cs : at[c] = "accepted"
      BY <1>2
    <2>2. /\ {d \in cs : at[d] = "sent"} = {}
          /\ {d \in cs : at[d] = "accepted" /\ got[d].r # 0} = IF got[c].r # 0 THEN {c} ELSE {}
      BY <2>1, Alone DEF Locked
    <2>3. orphan' = orphan /\ lost' = IF got[c].r # 0 THEN lost \union {seen[c].r} ELSE lost
      BY <2>2 DEF Abandon
    <2>4. Asked = {} /\ Answers = {Answer(c)} /\ Asked' = {} /\ Answers' = {}
      BY <2>1, AnswerOf, CellLeft DEF Presents
    <2>5. Spoilt' = IF got[c].r # 0 THEN Spoilt \union {Answer(c).to} ELSE Spoilt
      BY <2>3 DEF Spoilt, Answer
    <2>6. Cell!Discard(Answer(c), got[c].r # 0)
      BY <2>3, <2>4, <2>5 DEF Cell!Discard, Cell!None, OnDisk, Answer
    <2> QED
      BY <2>4, <2>6 DEF Cell!Next
  <1>3. CASE \A c \in cs : ~Presents(c)
    <2>1. {d \in cs : at[d] = "sent"} = {} /\ {d \in cs : at[d] = "accepted" /\ got[d].r # 0} = {}
      BY <1>3 DEF Presents
    <2>2. orphan' = orphan /\ lost' = lost
      BY <2>1 DEF Abandon
    <2>3. UNCHANGED <<Asked, Answers>>
      BY <1>3, LeaveFacts, CellFrame DEF AuthInv, Presents
    <2> QED
      BY <2>2, <2>3, CellKept
  <1> QED
    BY <1>1, <1>2, <1>3 DEF Presents

LEMMA CellFault ==
  ASSUME AuthInv,
         \/ \E c \in Call : Lose(c) \/ Drop(c)
         \/ \E p \in Process : Crash(p)
  PROVE  [Cell!Next]_Cell!svars
  <1>1. ASSUME NEW c \in Call, Lose(c) \/ Drop(c) PROVE [Cell!Next]_Cell!svars
    <2>1. Abandon({c}) /\ Leave({c}) /\ UNCHANGED <<entry, last, spent, torn>>
      BY <1>1 DEF Lose, Drop
    <2> QED
      BY <2>1, CellAbandon
  <1>2. ASSUME NEW p \in Process, Crash(p) PROVE [Cell!Next]_Cell!svars
    <2> DEFINE hit == {c \in Call : Home[c] = p /\ at[c] \notin {"idle", "ended"}}
    <2>1. /\ Abandon(hit) /\ Leave(hit) /\ hit \in SUBSET Call
          /\ UNCHANGED <<entry, last, spent, torn>>
      BY <1>2 DEF Crash
    <2> HIDE DEF hit
    <2> QED
      BY <2>1, CellAbandon
  <1> QED
    BY <1>1, <1>2

LEMMA CellLoose ==
  ASSUME AuthInv, NEW t \in Token, AnswerOrphan(t)
  PROVE  Cell!GrantLoose(t)
  <1>1. /\ t \in orphan /\ orphan' = orphan \ {t} /\ spent' = spent \union {t}
        /\ lost' = IF t \in spent THEN lost ELSE lost \union {t}
        /\ UNCHANGED <<entry, at, seen, got, last, torn>>
    BY DEF AnswerOrphan, callVars
  <1>2. Spoilt' = IF t \in spent THEN Spoilt ELSE Spoilt \union {t}
    BY <1>1 DEF Spoilt
  <1> QED
    BY <1>1, <1>2 DEF Cell!GrantLoose, OnDisk, Asked, Answers

LEMMA CellLogin ==
  ASSUME AuthInv, NEW refresh \in BOOLEAN, NEW expires \in BOOLEAN, Login(refresh, expires)
  PROVE  Cell!Login(IF refresh THEN last + 1 ELSE 0)
  <1>1. /\ last' = last + 1 /\ last + 1 \in Token /\ last + 1 \in Nat
        /\ entry' = [a |-> last + 1, r |-> IF refresh THEN last + 1 ELSE 0, born |-> last + 1,
                     exp |-> IF expires THEN last + 1 ELSE 0]
        /\ UNCHANGED <<at, seen, got, spent, orphan, lost, torn>>
    <2>1. last' = last + 1 /\ last + 1 \in Token /\ last + 1 \in Nat
      BY TokensAssumption DEF Login, AuthInv, AuthTypeOK, Token
    <2> QED
      BY <2>1 DEF Login, callVars
  <1>2. entry' # NoEntry
    <2>1. entry' \in Entry
      BY <1>1 DEF Entry
    <2> QED
      BY <2>1, NoEntryAssumption
  <1>3. OnDisk' = [a |-> last + 1, r |-> IF refresh THEN last + 1 ELSE 0]
    BY <1>1, <1>2 DEF OnDisk
  <1> QED
    BY <1>1, <1>3 DEF Cell!Login, Cell!None, Asked, Answers, Spoilt

LEMMA CellRest ==
  ASSUME AuthInv, Remove \/ Expire \/ UNCHANGED vars
  PROVE  Cell!Remove \/ UNCHANGED Cell!svars
  <1>1. UNCHANGED <<at, seen, got, last, spent, orphan, lost, torn>>
    BY DEF Remove, Expire, vars, callVars, providerVars, histVars
  <1>2. UNCHANGED <<Asked, Answers, Spoilt>>
    BY <1>1 DEF Asked, Answers, Spoilt
  <1>3. CASE Remove
    BY <1>1, <1>2, <1>3 DEF Remove, Cell!Remove, Cell!Nothing, Cell!None, OnDisk
  <1>4. CASE Expire \/ UNCHANGED vars
    BY <1>1, <1>2, <1>4, CellKept DEF Expire, vars
  <1> QED
    BY <1>3, <1>4

LEMMA CellStep == AuthInv /\ AuthInv' /\ [Next]_vars => [Cell!Next]_Cell!svars
  <1> SUFFICES ASSUME AuthInv, AuthInv', [Next]_vars PROVE [Cell!Next]_Cell!svars
    OBVIOUS
  <1>1. ASSUME NEW c \in Call, Load(c) \/ Step(c) \/ Refuse(c) PROVE [Cell!Next]_Cell!svars
    <2>1. CASE ReadRefresh(c) /\ at[c] # "observe2"
      <3>1. Cell!Present(entry.a = seen[c].a)
        BY <2>1, CellPresent
      <3> QED
        BY <3>1 DEF Cell!Next
    <2>2. CASE Commit(c)
      <3>1. Cell!Store(Answer(c)) /\ Answer(c) \in Answers
        BY <2>2, CellStore DEF Cell!Store
      <3> QED
        BY <3>1 DEF Cell!Next
    <2>3. CASE CommitRefused(c)
      <3>1. Cell!Discard(Answer(c), FALSE) /\ Answer(c) \in Answers
        BY <2>3, CellRefused DEF Cell!Discard
      <3> QED
        BY <3>1 DEF Cell!Next
    <2>4. CASE Refuse(c)
      BY <2>4, CellRefuse DEF Cell!Next
    <2>5. CASE ~(ReadRefresh(c) /\ at[c] # "observe2") /\ ~Commit(c) /\ ~CommitRefused(c) /\ ~Refuse(c)
      BY <1>1, <2>5, CellQuiet DEF Step
    <2> QED
      BY <2>1, <2>2, <2>3, <2>4, <2>5
  <1>2. ASSUME NEW c \in Call, NEW rotates \in BOOLEAN, NEW expires \in BOOLEAN,
               Accept(c, rotates, expires)
        PROVE  [Cell!Next]_Cell!svars
    <2> DEFINE r == IF rotates THEN last + 1 ELSE 0
    <2>1. Cell!Grant(seen[c].r, r) /\ r \in {Cell!None, last + 1}
      BY <1>2, CellGrant DEF Cell!None
    <2>2. seen[c].r \in Asked
      BY <2>1 DEF Cell!Grant
    <2> HIDE DEF r
    <2> QED
      BY <2>1, <2>2 DEF Cell!Next
  <1>3. CASE \/ \E c \in Call : Lose(c) \/ Drop(c)
             \/ \E p \in Process : Crash(p)
    BY <1>3, CellFault
  <1>4. ASSUME NEW t \in Token, AnswerOrphan(t) PROVE [Cell!Next]_Cell!svars
    <2>1. Cell!GrantLoose(t) /\ t \in orphan
      BY <1>4, CellLoose DEF Cell!GrantLoose
    <2> QED
      BY <2>1 DEF Cell!Next
  <1>5. ASSUME NEW refresh \in BOOLEAN, NEW expires \in BOOLEAN, Login(refresh, expires)
        PROVE  [Cell!Next]_Cell!svars
    <2> DEFINE r == IF refresh THEN last + 1 ELSE 0
    <2>1. Cell!Login(r) /\ r \in {Cell!None, last + 1}
      BY <1>5, CellLogin DEF Cell!None
    <2> HIDE DEF r
    <2> QED
      BY <2>1 DEF Cell!Next
  <1>6. CASE Remove \/ Expire \/ UNCHANGED vars
    BY <1>6, CellRest DEF Cell!Next
  <1> QED
    BY <1>1, <1>2, <1>3, <1>4, <1>5, <1>6 DEF Next

LEMMA CellInit == Init => Cell!Init
  <1> SUFFICES ASSUME Init PROVE Cell!Init
    OBVIOUS
  <1>1. entry \in Entry
    BY TokensAssumption DEF Init, Entry, Token
  <1>2. OnDisk = [a |-> 1, r |-> 1]
    BY <1>1, NoEntryAssumption DEF Init, OnDisk
  <1>3. {c \in Call : at[c] = "sent"} = {} /\ {c \in Call : at[c] = "accepted"} = {}
    BY DEF Init
  <1>4. Asked = {} /\ Answers = {}
    BY <1>3 DEF Asked, Answers
  <1> QED
    BY <1>2, <1>4 DEF Init, Cell!Init, Spoilt

\* For whoever uses the credential the calls of all processes are one cell that
\* is compared and set (refresh_oauth_credential_with, update_oauth_at).
THEOREM RefreshImplementsCell == Spec => ImplementsCredentialCell
  <1>1. Spec => [][Next]_vars
    BY PTL DEF Spec
  <1> QED
    BY <1>1, CellInit, CellStep, AuthCorrect, PTL DEF Spec, ImplementsCredentialCell, Cell!Spec

=============================================================================
