----------------------------- MODULE TurnLease -----------------------------
(***************************************************************************)
(* What the rest of the program may rely on when it asks for the right to  *)
(* write a session: the SessionTurnAcquireResult / SessionTurnLease        *)
(* contract of crates/core/src/store.rs.  At most one turn owns the        *)
(* session; a call is granted only to the owner, refused only while some   *)
(* other turn owns the session, and ownership ends with the lease or with  *)
(* the process.  TurnLock shows how two files implement it.                *)
(***************************************************************************)
CONSTANTS Turns,      \* turn ids, one acquisition call each
          NoTurn      \* "nobody owns the session"

VARIABLES owner,      \* the turn that owns the session, or NoTurn
          answer      \* what the call of each turn has been told

leaseVars == <<owner, answer>>

Answers == {"none", "granted", "refused", "failed", "ended"}

LeaseTypeOK ==
    /\ owner \in Turns \cup {NoTurn}
    /\ answer \in [Turns -> Answers]

LeaseInit ==
    /\ owner = NoTurn
    /\ answer = [t \in Turns |-> "none"]

Tell(t, a) == answer' = [answer EXCEPT ![t] = a]

\* Ownership passes only from nobody.
Own(t) ==
    /\ answer[t] = "none"
    /\ owner = NoTurn
    /\ owner' = t
    /\ UNCHANGED answer

Grant(t) ==
    /\ answer[t] = "none"
    /\ owner = t
    /\ Tell(t, "granted")
    /\ UNCHANGED owner

\* SessionTurnAcquireResult::Busy: some other turn owns the session.
Refuse(t) ==
    /\ answer[t] = "none"
    /\ owner \notin {t, NoTurn}
    /\ Tell(t, "refused")
    /\ UNCHANGED owner

\* An Err answer leaves the caller without the session.
Fail(t) ==
    /\ answer[t] = "none"
    /\ Tell(t, "failed")
    /\ owner' = IF owner = t THEN NoTurn ELSE owner

Release(t) ==
    /\ answer[t] = "granted"
    /\ owner = t
    /\ owner' = NoTurn
    /\ Tell(t, "ended")

\* The process that hosts the turns S dies.
Die(S) ==
    /\ answer' = [t \in Turns |-> IF t \in S THEN "ended" ELSE answer[t]]
    /\ owner' = IF owner \in S THEN NoTurn ELSE owner

LeaseNext ==
    \/ \E t \in Turns : Own(t) \/ Grant(t) \/ Refuse(t) \/ Fail(t) \/ Release(t)
    \/ \E S \in SUBSET Turns : Die(S)

LeaseSpec == LeaseInit /\ [][LeaseNext]_leaseVars
=============================================================================
