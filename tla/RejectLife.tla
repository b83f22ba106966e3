----------------------------- MODULE RejectLife -----------------------------
(***************************************************************************)
(* What the reject queue promises about the mails it holds, with no parser,*)
(* clock, keys, row ids or deals: where a mail's row is in its life, which *)
(* retries are at work, and which mails are safe (on the board, or stored  *)
(* for the backfill).                                                      *)
(*                                                                         *)
(*   - a mail nobody could read is not shed while its row is open;         *)
(*   - a retry claims an open row, and either brings the mail to safety    *)
(*     or hands the row back; unless it dies, there is no third way;       *)
(*   - a retry whose row was shed meanwhile hands back nothing, also when  *)
(*     the mail has come in again and has a new row;                       *)
(*   - what is dismissed stays so until it is shed.                        *)
(*                                                                         *)
(* Inbound implements this specification (RejectLifeSpec there).           *)
(***************************************************************************)
CONSTANTS
    Mails,
    Unread,     \* the mails nobody could read
    Requests    \* the threads that may retry one

VARIABLES
    tray,       \* the status of each mail's row, "none" if it has none
    work,       \* the retries at work: <<request, mail>>
    holds,      \* those of them whose row is still there
    safe,       \* mails that are on the board or stored
    torn        \* mails whose retry has died

rejectVars == <<tray, work, holds, safe, torn>>

Init ==
    /\ tray = [m \in Mails |-> "none"]
    /\ work = {} /\ holds = {} /\ safe = {} /\ torn = {}

\* A mail is held, and rows S are shed to make room, perhaps its own.
Hold(m, S) ==
    /\ \A n \in S \cap Unread : tray[n] \in {"recovered", "dismissed"}
    /\ tray' = [n \in Mails |-> IF n \in S THEN "none"
                                ELSE IF n = m /\ tray[n] = "none" THEN "open"
                                ELSE tray[n]]
    /\ holds' = {h \in holds : h[2] \notin S}
    /\ UNCHANGED <<work, safe, torn>>

Claim(p, m) ==
    /\ tray[m] = "open"
    /\ tray' = [tray EXCEPT ![m] = "recovered"]
    /\ work' = work \cup {<<p, m>>}
    /\ holds' = holds \cup {<<p, m>>}
    /\ UNCHANGED <<safe, torn>>

HandBack(p, m) ==
    /\ <<p, m>> \in work
    /\ tray' = IF <<p, m>> \in holds THEN [tray EXCEPT ![m] = "open"] ELSE tray
    /\ work' = work \ {<<p, m>>}
    /\ holds' = holds \ {<<p, m>>}
    /\ UNCHANGED <<safe, torn>>

Dismiss(m) ==
    /\ tray[m] = "open"
    /\ tray' = [tray EXCEPT ![m] = "dismissed"]
    /\ UNCHANGED <<work, holds, safe, torn>>

\* Mails reach safety by any route, and the retries `done` end.
Bring(S, done) ==
    /\ \A h \in done : h[2] \in safe \cup S
    /\ safe' = safe \cup S
    /\ work' = work \ done
    /\ holds' = holds \ done
    /\ UNCHANGED <<tray, torn>>

\* The process dies, and every retry with it.
Tear ==
    /\ torn' = torn \cup {h[2] : h \in work}
    /\ work' = {} /\ holds' = {}
    /\ UNCHANGED <<tray, safe>>

Next ==
    \/ \E m \in Mails, S \in SUBSET Mails : Hold(m, S)
    \/ \E p \in Requests, m \in Mails : Claim(p, m) \/ HandBack(p, m)
    \/ \E m \in Mails : Dismiss(m)
    \/ \E S \in SUBSET Mails, done \in SUBSET work : Bring(S, done)
    \/ Tear

Spec == Init /\ [][Next]_rejectVars
=============================================================================
