----------------------------- MODULE MCCadence -----------------------------
(***************************************************************************)
(* Instances of Cadence for TLC: the playbooks, and the stay dates its     *)
(* deals may have.                                                         *)
(***************************************************************************)
EXTENDS Cadence, TLC

\* FullPlaybook with one step of each kind: the first contact, a follow-up and
\* the last one; a confirmation, a step that is never armed, the last one.
ShortPlaybook ==
    [presale    |-> << Step("intro",             "inquiry"),
                       Step("followup_1",        "contact"),
                       Step("last_call",         "contact") >>,
     prearrival |-> << Step("booking_confirmed", "contact"),
                       Step("check_in_details",  "check_in"),
                       Step("checkout_info",     "check_out") >>]

\* Callers of run_due are alike, and so are the hosts that deliver.
Alike == Permutations(Agents) \cup Permutations(Senders)

Undated == {<<"unknown", "unknown">>}

\* A stay of which only the end is known.
EndKnown == {<<"unknown", "ahead">>}
=============================================================================
