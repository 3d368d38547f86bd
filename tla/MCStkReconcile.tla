--------------------------- MODULE MCStkReconcile ---------------------------
(***************************************************************************)
(* StkPayments at three sizes in one run.  "focus" chooses between many    *)
(* checks of one attempt by two workers and an operator, two attempts with *)
(* one worker, and two payments between which receipts travel.  Every step *)
(* is a step of StkPayments by the attempts, sessions and result codes of  *)
(* the size.                                                               *)
(***************************************************************************)
EXTENDS StkPayments

CONSTANTS p1, p2, w1

ASSUME SizesAssumption == p1 \in Payments /\ p2 \in Payments /\ w1 \in Workers /\ MaxAttempts >= 2

VARIABLE focus

Sizes ==
    [checks |-> [attempts |-> {<<p1, 1>>}, sessions |-> Sessions,
                 codes |-> {"success", "unverified", "failed", "timeout", "unknown"}],
     retries |-> [attempts |-> {<<p1, 1>>, <<p1, 2>>}, sessions |-> {w1},
                  codes |-> {"success", "timeout"}],
     links |-> [attempts |-> {<<p1, 1>>, <<p2, 1>>}, sessions |-> {},
                codes |-> {"success", "reused"}]]

SizedInit == focus \in DOMAIN Sizes /\ Init

\* The steps of Next that name an attempt, a payment or a session.
OfAttempt(a, codes) ==
    \/ Transmit(a)
    \/ \E answer \in {"paid", "declined"} : CustomerAnswers(a, answer)
    \/ \E code \in codes : Callback(a, code)
    \/ Respond(a) \/ CrashSubmission(a) \/ Abandon(a)

OfPayment(p, attempts, sessions) ==
    \/ Create(p)
    \/ <<p, NextNumber(p)>> \in attempts /\ \E override \in BOOLEAN : Retry(p, override)
    \/ \E r \in filed : LinkCallback(r, p)
    \/ \E o \in Operators \cap sessions : LoadForManualCheck(o, p)
    \/ Reverse(p) \/ ExpireLease(p)

OfSession(s, codes) ==
    \/ \E p \in Payments : s \in Workers /\ Claim(s, p)
    \/ BeginCheck(s) \/ SkipCheck(s) \/ BeginManualCheck(s) \/ DropCheck(s) \/ CrashCheck(s)
    \/ \E answer \in Answers \ (FailureCodes \ codes), aged \in BOOLEAN :
          ApplyCheck(s, answer, aged)

SizedNext ==
    LET size == Sizes[focus] IN
    /\ UNCHANGED focus
    /\ \/ \E a \in size.attempts : OfAttempt(a, size.codes)
       \/ \E p \in {PaymentOf(a) : a \in size.attempts} : OfPayment(p, size.attempts, size.sessions)
       \/ \E s \in size.sessions : OfSession(s, size.codes)

SizedSpec == SizedInit /\ [][SizedNext]_<<focus, vars>>

=============================================================================
