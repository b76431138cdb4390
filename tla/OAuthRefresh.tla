---------------------------- MODULE OAuthRefresh -----------------------------
(***************************************************************************)
(* The refresh of one OAuth credential before a request: oauth_credential  *)
(* (crates/app) and refresh_oauth_credential_with (crates/auth), called by *)
(* tasks of several processes that share the auth file, while the user     *)
(* logs in again or removes the account.                                   *)
(*                                                                         *)
(* Tokens are numbered as they are issued; an answer of the provider and a *)
(* login issue an access token and, mostly, a refresh token of that        *)
(* number.  Each get() loads the file anew, a transaction is one step.     *)
(* The gate of a process and the file lock are guards of the future that   *)
(* took them: they are held as long as a call is at a step behind them.    *)
(***************************************************************************)
EXTENDS Integers, FiniteSets

CONSTANTS
  Call,       \* calls of oauth_credential
  Process,
  Home,       \* the process of a call
  Mask,       \* MaskedCredential::mask, which may map two tokens to one
  NoEntry,
  MaxCalls,   \* bound: calls that begin
  MaxTokens,  \* bound: tokens issued
  MaxFaults   \* bound: lost replies, dropped futures, crashes

Token == 1 .. MaxTokens
Entry == [a: Token, r: Nat, born: Nat, exp: Nat]

ASSUME HomeAssumption == Home \in [Call -> Process]
ASSUME MaskAssumption == Mask \in [Token -> Nat]
ASSUME TokensAssumption == MaxTokens \in Nat \ {0}
ASSUME NoEntryAssumption == NoEntry \notin Entry

VARIABLES
  entry,   \* auth.json: access, refresh (0: none), created_at, expires_at
           \* (the number of the answer that set it, 0: none)
  at,      \* where the call is
  stored,  \* the metadata the call works with
  seen,    \* the tokens it read
  changed, \* what it read under the lock differs from what it knew
  got,     \* the provider's answer
  latest,  \* RefreshGate::latest of a process
  last,    \* the last token issued
  due,     \* expiries that have come, less the skew
  spent,   \* refresh tokens the provider has replaced
  orphan,  \* refresh tokens of requests nobody waits for
  faults,
  login,   \* history: the number of the current login, 0 when removed
  of,      \* history: the login a token derives from
  lost,    \* history: refresh tokens whose replacement a fault destroyed
  torn     \* history: those sent by a call that read across a login

callVars == <<at, stored, seen, changed, got>>
providerVars == <<last, due, spent, orphan>>
histVars == <<login, of, lost, torn>>
vars == <<entry, callVars, latest, providerVars, faults, histVars>>

Meta == [mask |-> Mask[entry.a], born |-> entry.born, exp |-> entry.exp]

Locked == {"reload", "current", "current2", "before", "before2", "sent", "accepted"}
Gated == {"observe", "observe2", "lock"} \union Locked
Awaits == {"gate", "lock", "sent"}

NoMeta == [mask |-> 0, born |-> 0, exp |-> 0]
NoTokens == [a |-> 0, r |-> 0]
NoAnswer == [a |-> 0, r |-> 0, exp |-> 0]

Init ==
  /\ entry = [a |-> 1, r |-> 1, born |-> 1, exp |-> 1]
  /\ at = [c \in Call |-> "idle"]
  /\ stored = [c \in Call |-> NoMeta]
  /\ seen = [c \in Call |-> NoTokens]
  /\ changed = [c \in Call |-> FALSE]
  /\ got = [c \in Call |-> NoAnswer]
  /\ latest = [p \in Process |-> [a |-> 0, exp |-> 0]]
  /\ last = 1 /\ due = {0} /\ spent = {} /\ orphan = {}
  /\ faults = 0
  /\ login = 1 /\ of = [t \in Token |-> 1]
  /\ lost = {} /\ torn = {}

-----------------------------------------------------------------------------
\* Mutated form: a call that ends does not give the gate back.
GateFreeKept(p) == \A d \in Call : Home[d] = p => at[d] \notin Gated \union {"ended"}

GateFree(p) == \A d \in Call : Home[d] = p => at[d] \notin Gated
LockFree == \A d \in Call : at[d] \notin Locked

Go(c, label) == at' = [at EXCEPT ![c] = label]

\* The calls cs return, with a bearer or an error, or stop, and their locals
\* are gone.  What oauth_credential does after the refresh only reads.
Leave(cs) ==
  /\ at' = [c \in Call |-> IF c \in cs THEN "ended" ELSE at[c]]
  /\ stored' = [c \in Call |-> IF c \in cs THEN NoMeta ELSE stored[c]]
  /\ seen' = [c \in Call |-> IF c \in cs THEN NoTokens ELSE seen[c]]
  /\ changed' = [c \in Call |-> c \notin cs /\ changed[c]]
  /\ got' = [c \in Call |-> IF c \in cs THEN NoAnswer ELSE got[c]]

\* A read that finds nothing ends the call.
MissingAccess == entry = NoEntry
MissingRefresh == IF entry = NoEntry THEN TRUE ELSE entry.r = 0

NotFound(c) ==
  /\ \/ at[c] \in {"observe", "reload", "current", "before"} /\ MissingAccess
     \/ at[c] \in {"observe2", "current2", "before2"} /\ MissingRefresh
  /\ Leave({c})
  /\ UNCHANGED <<entry, latest, providerVars, faults, histVars>>

\* No account, no refresh needed, or the gate.
Load(c) ==
  /\ at[c] = "idle"
  /\ Cardinality({d \in Call : at[d] # "idle"}) < MaxCalls
  /\ IF entry = NoEntry \/ entry.exp \notin due
     THEN Leave({c})
     ELSE /\ stored' = [stored EXCEPT ![c] = Meta]
          /\ Go(c, "gate")
          /\ UNCHANGED <<seen, changed, got>>
  /\ UNCHANGED <<entry, latest, providerVars, faults, histVars>>

\* What this process published is news to the call and still on disk.
Applies(c, l) ==
  /\ l.a # 0
  /\ ~(Mask[l.a] = stored[c].mask /\ l.exp = stored[c].exp)
  /\ entry # NoEntry /\ entry.a = l.a

\* Time does not run backwards: the second should_refresh changes nothing.
EnterGate(c) ==
  /\ at[c] = "gate" /\ GateFree(Home[c])
  /\ LET l == latest[Home[c]] IN
     IF Applies(c, l)
     THEN Leave({c})
     ELSE Go(c, "observe") /\ UNCHANGED <<stored, seen, changed, got>>
  /\ UNCHANGED <<entry, latest, providerVars, faults, histVars>>

\* backend_token_snapshot, twice: two loads of the file each time.
ReadAccess(c) ==
  /\ at[c] \in {"observe", "before"} /\ ~MissingAccess
  /\ seen' = [seen EXCEPT ![c].a = entry.a]
  /\ Go(c, IF at[c] = "observe" THEN "observe2" ELSE "before2")
  /\ UNCHANGED <<entry, stored, changed, got, latest, providerVars, faults, histVars>>

\* Mutated form: the request goes out with what was read before the lock.
ReadRefreshStale(c) ==
  /\ at[c] \in {"observe2", "before2"} /\ ~MissingRefresh
  /\ seen' = IF at[c] = "observe2" THEN [seen EXCEPT ![c].r = entry.r] ELSE seen
  /\ Go(c, IF at[c] = "observe2" THEN "lock" ELSE "sent")
  /\ torn' = IF at[c] = "before2" /\ entry.a # seen[c].a THEN torn \union {entry.r} ELSE torn
  /\ UNCHANGED <<entry, stored, changed, got, latest, providerVars, faults, login, of, lost>>

\* After the second snapshot the request goes out.
ReadRefresh(c) ==
  /\ at[c] \in {"observe2", "before2"} /\ ~MissingRefresh
  /\ seen' = [seen EXCEPT ![c].r = entry.r]
  /\ Go(c, IF at[c] = "observe2" THEN "lock" ELSE "sent")
  /\ torn' = IF at[c] = "before2" /\ entry.a # seen[c].a THEN torn \union {entry.r} ELSE torn
  /\ UNCHANGED <<entry, stored, changed, got, latest, providerVars, faults, login, of, lost>>

\* Mutated form: the file is locked for readers.
TryLockShared(c) ==
  /\ at[c] = "lock"
  /\ Go(c, "reload")
  /\ UNCHANGED <<entry, stored, seen, changed, got, latest, providerVars, faults, histVars>>

TryLock(c) ==
  /\ at[c] = "lock" /\ LockFree
  /\ Go(c, "reload")
  /\ UNCHANGED <<entry, stored, seen, changed, got, latest, providerVars, faults, histVars>>

LockTimeout(c) ==
  /\ at[c] = "lock" /\ ~LockFree
  /\ Leave({c})
  /\ UNCHANGED <<entry, latest, providerVars, faults, histVars>>

-----------------------------------------------------------------------------
(* Under the file lock                                                     *)

Reload(c) ==
  /\ at[c] = "reload" /\ ~MissingAccess
  /\ changed' = [changed EXCEPT ![c] = Meta # stored[c]]
  /\ stored' = [stored EXCEPT ![c] = Meta]
  /\ Go(c, "current")
  /\ UNCHANGED <<entry, seen, got, latest, providerVars, faults, histVars>>

CurrentAccess(c) ==
  /\ at[c] = "current" /\ ~MissingAccess
  /\ changed' = [changed EXCEPT ![c] =
       @ \/ entry.a # seen[c].a \/ Mask[entry.a] # stored[c].mask]
  /\ Go(c, "current2")
  /\ UNCHANGED <<entry, stored, seen, got, latest, providerVars, faults, histVars>>

\* Another process was faster, or the credential is not due after all.
CurrentRefresh(c) ==
  /\ at[c] = "current2" /\ ~MissingRefresh
  /\ IF changed[c] \/ entry.r # seen[c].r \/ stored[c].exp \notin due
     THEN Leave({c})
     ELSE Go(c, "before") /\ UNCHANGED <<stored, seen, changed, got>>
  /\ UNCHANGED <<entry, latest, providerVars, faults, histVars>>

\* The provider's answer may come without a refresh token, which leaves the
\* old one valid, and without an expiry.
Accept(c, rotates, expires) ==
  /\ at[c] = "sent" /\ seen[c].r \notin spent /\ last < MaxTokens
  /\ last' = last + 1
  /\ got' = [got EXCEPT ![c] = [a |-> last', r |-> IF rotates THEN last' ELSE 0,
                                exp |-> IF expires THEN last' ELSE 0]]
  /\ spent' = IF rotates THEN spent \union {seen[c].r} ELSE spent
  /\ of' = [of EXCEPT ![last'] = of[seen[c].r]]
  /\ Go(c, "accepted")
  /\ UNCHANGED <<entry, stored, seen, changed, latest, due, orphan, faults, login, lost, torn>>

\* invalid_grant, or an error before the provider did anything.
Refuse(c) ==
  /\ at[c] = "sent"
  /\ Leave({c})
  /\ UNCHANGED <<entry, latest, providerVars, faults, histVars>>

\* Mutated form: the commit asks only whether there is still an account.
UnmovedExists(c) == entry # NoEntry

\* The tokens on disk are those the exchange began with.
Unmoved(c) == entry # NoEntry /\ entry.a = seen[c].a /\ entry.r = seen[c].r

\* Mutated form: a rotated refresh token is dropped.
KeptOld(new, old) == IF old = 0 THEN new ELSE old

Kept(new, old) == IF new = 0 THEN old ELSE new

\* update_oauth_at: what the answer leaves out is kept.
Commit(c) ==
  /\ at[c] = "accepted" /\ Unmoved(c)
  /\ LET exp == Kept(got[c].exp, stored[c].exp) IN
     /\ entry' = [a |-> got[c].a, r |-> Kept(got[c].r, entry.r),
                  born |-> stored[c].born, exp |-> exp]
     /\ latest' = [latest EXCEPT ![Home[c]] = [a |-> got[c].a, exp |-> exp]]
  /\ Leave({c})
  /\ UNCHANGED <<providerVars, faults, histVars>>

\* "credential changed during refresh"
CommitRefused(c) ==
  /\ at[c] = "accepted" /\ ~Unmoved(c)
  /\ Leave({c})
  /\ UNCHANGED <<entry, latest, providerVars, faults, histVars>>

-----------------------------------------------------------------------------
(* Faults                                                                  *)

Fault == faults < MaxFaults /\ faults' = faults + 1

\* What becomes of the requests of calls nobody waits for any more.
Abandon(calls) ==
  /\ orphan' = orphan \union {seen[c].r : c \in {d \in calls : at[d] = "sent"}}
  /\ lost' = lost \union {seen[c].r : c \in {d \in calls : at[d] = "accepted" /\ got[d].r # 0}}

\* The reply is lost on its way, the future dropped before it arrives, or the
\* file cannot be written.
Lose(c) ==
  /\ at[c] = "accepted" /\ Fault
  /\ Abandon({c})
  /\ Leave({c})
  /\ UNCHANGED <<entry, latest, last, due, spent, login, of, torn>>

\* The future is dropped, as the four seconds of a model probe do.
Drop(c) ==
  /\ at[c] \in Awaits /\ Fault
  /\ Abandon({c})
  /\ Leave({c})
  /\ UNCHANGED <<entry, latest, last, due, spent, login, of, torn>>

Crash(p) ==
  /\ Fault
  /\ LET hit == {c \in Call : Home[c] = p /\ at[c] \notin {"idle", "ended"}} IN
     /\ hit # {}
     /\ Abandon(hit)
     /\ Leave(hit)
  /\ latest' = [latest EXCEPT ![p] = [a |-> 0, exp |-> 0]]
  /\ UNCHANGED <<entry, last, due, spent, login, of, torn>>

\* The provider answers a request nobody waits for.
AnswerOrphan(t) ==
  /\ t \in orphan
  /\ orphan' = orphan \ {t}
  /\ spent' = spent \union {t}
  /\ lost' = IF t \in spent THEN lost ELSE lost \union {t}
  /\ UNCHANGED <<entry, callVars, latest, last, due, faults, login, of, torn>>

-----------------------------------------------------------------------------
(* The user, and time                                                      *)

\* store_default_oauth_token: a login without a refresh token drops the old one.
Login(refresh, expires) ==
  /\ last < MaxTokens
  /\ last' = last + 1
  /\ entry' = [a |-> last', r |-> IF refresh THEN last' ELSE 0, born |-> last',
               exp |-> IF expires THEN last' ELSE 0]
  /\ login' = last' /\ of' = [of EXCEPT ![last'] = last']
  /\ UNCHANGED <<callVars, latest, due, spent, orphan, faults, lost, torn>>

Remove ==
  /\ entry # NoEntry
  /\ entry' = NoEntry /\ login' = 0
  /\ UNCHANGED <<callVars, latest, providerVars, faults, of, lost, torn>>

Expire ==
  /\ entry # NoEntry /\ entry.exp \notin due
  /\ due' = due \union {entry.exp}
  /\ UNCHANGED <<entry, callVars, latest, last, spent, orphan, faults, histVars>>

-----------------------------------------------------------------------------
\* What a call does by itself, once it has begun.
Step(c) ==
  \/ NotFound(c) \/ EnterGate(c)
  \/ ReadAccess(c) \/ ReadRefresh(c) \/ TryLock(c) \/ LockTimeout(c)
  \/ Reload(c) \/ CurrentAccess(c) \/ CurrentRefresh(c)
  \/ Commit(c) \/ CommitRefused(c)

Next ==
  \/ \E c \in Call :
       \/ Load(c) \/ Step(c) \/ Refuse(c) \/ Lose(c) \/ Drop(c)
       \/ \E rotates, expires \in BOOLEAN : Accept(c, rotates, expires)
  \/ \E p \in Process : Crash(p)
  \/ \E t \in Token : AnswerOrphan(t)
  \/ \E refresh, expires \in BOOLEAN : Login(refresh, expires)
  \/ Remove \/ Expire

\* Tasks run and the wait for the file lock is polled; nothing is assumed of
\* the provider (the client has no time-out), the user or the clock.
Spec == Init /\ [][Next]_vars /\ \A c \in Call : WF_vars(Step(c))

-----------------------------------------------------------------------------
(* Properties                                                              *)

\* The credential on disk, the locals of the calls and the histories keep
\* their types: what is on disk always has an access token that was issued.
AuthTypeOK ==
  /\ entry \in Entry \union {NoEntry}
  /\ at \in [Call -> {"idle", "gate", "ended"} \union Gated]
  /\ stored \in [Call -> [mask: Nat, born: Nat, exp: Nat]]
  /\ seen \in [Call -> [a: Nat, r: Nat]]
  /\ changed \in [Call -> BOOLEAN]
  /\ got \in [Call -> [a: Nat, r: Nat, exp: Nat]]
  /\ latest \in [Process -> [a: Nat, exp: Nat]]
  /\ last \in Token
  /\ due \subseteq Nat
  /\ spent \subseteq Token /\ orphan \subseteq Token
  /\ faults \in Nat
  /\ login \in Nat
  /\ of \in [Token -> Token]
  /\ lost \subseteq Token /\ torn \subseteq Token

Spoilt == lost \union torn
Presents(c) == at[c] \in {"sent", "accepted"}

\* A refresh token is presented by one call at a time, over all processes,
\* and never again once the provider has replaced it, unless the replacement
\* was destroyed.
ConsumedOnce ==
  \A c \in Call : Presents(c) =>
    /\ \A d \in Call \ {c} : Presents(d) => seen[d].r # seen[c].r
    /\ at[c] = "sent" => seen[c].r \notin spent \ Spoilt

\* The provider has not replaced the refresh token on disk, or the call that holds
\* the replacement is about to write it, or the token is spoilt.
WorksOrSpoilt ==
  entry # NoEntry /\ entry.r \in spent \ Spoilt =>
    \E c \in Call : at[c] = "accepted" /\ seen[c].r = entry.r /\ Unmoved(c)

\* A login can be lost, and in two ways only.  A reply, a dropped future, a failed
\* write or a crash takes the replacement of its token: never without such a
\* fault.  Or the login comes between the two loads of a snapshot, and the request
\* spends its first token for an answer that the commit refuses: a token that a
\* refresh has written is not lost that way.  No other order of calls, logins and
\* removals, in any number of processes, leaves a spent token on disk
\* (refresh_oauth_credential_with, update_oauth_at).
LossIsExplained ==
  /\ WorksOrSpoilt
  /\ lost # {} => faults > 0
  /\ \A t \in torn : of[t] = t

\* A late answer never brings back an account that was removed or replaced:
\* what is on disk derives from the login that is current.
LatestLoginWins ==
  /\ (entry = NoEntry) <=> (login = 0)
  /\ entry # NoEntry =>
       /\ of[entry.a] = login
       /\ entry.r # 0 => of[entry.r] = login

\* If no request stays unanswered, every call that begins ends: it never waits
\* for ever for a gate or a lock whose holder was dropped.
EveryCallEnds ==
  (\A c \in Call : []<>(at[c] # "sent")) =>
    \A c \in Call : at[c] # "idle" ~> at[c] = "ended"

-----------------------------------------------------------------------------
(* What the users of the credential are promised                           *)

OnDisk == IF entry = NoEntry THEN [a |-> 0, r |-> 0] ELSE [a |-> entry.a, r |-> entry.r]
Asked == {seen[c].r : c \in {d \in Call : at[d] = "sent"}}
Answers ==
  {[to |-> seen[c].r, a |-> got[c].a, r |-> got[c].r] : c \in {d \in Call : at[d] = "accepted"}}

Cell == INSTANCE CredentialCell WITH
  cell <- OnDisk, asked <- Asked, answers <- Answers,
  used <- spent, gone <- Spoilt, loose <- orphan, issued <- last

\* Gates, file lock, the readings under it and the comparison in the commit
\* together make a file that several processes write a cell that is compared
\* and then set: its refresh token is exchanged by one call at a time, and an
\* answer replaces exactly the token it was obtained for, or nothing
\* (refresh_oauth_credential_with, update_oauth_at).
ImplementsCredentialCell == Cell!Spec
=============================================================================
