----------------------------- MODULE AuditLogs -----------------------------
(***************************************************************************)
(* The ledger of the dashboard (frontend/src/components/AuditLogs.tsx) and *)
(* the drawer that shows the verification of one of its certificates.      *)
(*                                                                         *)
(*  - A verification names the entity and the shard of its certificate;    *)
(*    it is known here by the certificate.  Its answers and its errors     *)
(*    both end as a result, so what it says is left out: a result is known *)
(*    by the certificate that it was asked for.                            *)
(*  - The text that filters the list is left out: any certificate may be   *)
(*    on it.                                                               *)
(***************************************************************************)
EXTENDS PageState

CONSTANTS
    NoCert,          \* no certificate: the drawer is closed, or it has no result
    MaxVerifications \* bound: verifications that are under way together

ASSUME NoCertAssumption == NoCert \notin Certificate

VARIABLES
    verifyingCert,
    verifyResult,
    isVerifying,
    verifications   \* how many calls of verifyAudit for a certificate are under way

drawerVars == <<verifyingCert, verifyResult, isVerifying>>
auditVars == <<drawerVars, verifications>>

AuditInit ==
    /\ verifyingCert = NoCert
    /\ verifyResult = NoCert
    /\ isVerifying = FALSE
    /\ verifications = [c \in Certificate |-> 0]

UnderWay == {c \in Certificate : verifications[c] > 0}

\* handleVerifyClick, on a certificate of the list, up to its await.  The drawer
\* covers the list while it is open, but may be closed before its answer is there.
handleVerifyClick(c) ==
    /\ verifyingCert = NoCert
    /\ \E i \in DOMAIN ledger : ledger[i] = c
    /\ Cardinality(UnderWay) < MaxVerifications /\ verifications[c] < MaxVerifications
    /\ verifyingCert' = c
    /\ verifyResult' = NoCert
    /\ isVerifying' = TRUE
    /\ verifications' = [verifications EXCEPT ![c] = @ + 1]
    /\ UNCHANGED pageVars

\* Mutant: an error leaves no result.
SettleUnlessError(c) ==
    /\ verifications[c] > 0
    /\ verifications' = [verifications EXCEPT ![c] = @ - 1]
    /\ verifyResult' \in {c, verifyResult}
    /\ isVerifying' = FALSE
    /\ UNCHANGED <<verifyingCert, pageVars>>

\* The answer or the error of verifyAudit, whatever the drawer shows by now.
SettleVerification(c) ==
    /\ verifications[c] > 0
    /\ verifications' = [verifications EXCEPT ![c] = @ - 1]
    /\ verifyResult' = c
    /\ isVerifying' = FALSE
    /\ UNCHANGED <<verifyingCert, pageVars>>

\* Closing the drawer keeps the result and does not cancel the call.
CloseDrawer ==
    /\ verifyingCert # NoCert
    /\ verifyingCert' = NoCert
    /\ UNCHANGED <<verifyResult, isVerifying, verifications, pageVars>>

DrawerOpen == verifyingCert # NoCert

\* What the drawer shows.
DrawerBody == IF isVerifying THEN "turning"
              ELSE IF verifyResult # NoCert THEN "result" ELSE "blank"

---------------------------------------------------------------------------
(* Correctness.                                                            *)

\* The type of the drawer's state.
AuditTypeOK ==
    /\ verifyingCert \in Certificate \cup {NoCert}
    /\ verifyResult \in Certificate \cup {NoCert}
    /\ isVerifying \in BOOLEAN
    /\ verifications \in [Certificate -> Nat]

\* The drawer is never blank and comes to rest: while it turns, a call is under way
\* that will stop it, and an open drawer that does not turn has a result, however
\* often it was opened and closed before the answers came.
DrawerSettles ==
    /\ isVerifying => UnderWay # {}
    /\ DrawerOpen => DrawerBody # "blank"
=============================================================================
