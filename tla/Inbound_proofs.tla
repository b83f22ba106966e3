---------------------------- MODULE Inbound_proofs ----------------------------
(***************************************************************************)
(* Theorems about Inbound, for every set of mails and request threads and  *)
(* every bound, the caps of the reject table included.                     *)
(***************************************************************************)
EXTENDS Inbound, Greatest

Places == {"rest", "recording", "claiming", "finding", "landing", "remembering",
           "drafting", "answering", "applying", "marking", "looking", "reopening"}
Routes == {"none", "webhook", "retry"}
Codes  == {"none", "unparsed", "sender_not_allowed"}

DealRow == [item : Mails, closed : BOOLEAN, replied : 0 .. MaxTime]
Row     == [status : {"none", Open, Recovered, Dismissed}, code : Codes, rid : Nat]
AnyMail == Mails \cup {CHOOSE m \in Mails : TRUE}
Thread  == [at : Places, by : Routes, mail : AnyMail, row : Nat, target : Nat,
            remember : BOOLEAN]
Load    == [at : {"rest", "picking", "landing"}, todo : SUBSET Mails, target : Nat, fresh : BOOLEAN,
            mail : AnyMail]

\* The parts of the type invariant: a thread that works has a mail, and what a
\* thread or a load has found is a deal that exists.
DealsType == /\ deals \in Seq(DealRow)
             /\ \A d, e \in DealIds : deals[d].item = deals[e].item => d = e
ProcType  == /\ proc \in [Requests -> Thread]
             /\ \A p \in Requests : /\ ~ At(p, "rest") => Mail(p) \in Mails
                                    /\ proc[p].target \in DealIds \cup {NoDeal}
BoardType == /\ board \in Load
             /\ board.at = "landing" => board.mail \in Mails
             /\ board.target \in DealIds \cup {NoDeal}

TypeInv ==
    /\ now \in 1 .. MaxTime
    /\ seen \in [Mails -> 0 .. MaxTime]
    /\ held \in [Mails -> Row]
    /\ responses \subseteq Mails
    /\ DealsType /\ ProcType /\ BoardType

-----------------------------------------------------------------------------
(* Lemmas about deals, threads and rows.                                   *)

\* find_thread finds a deal or none.
LEMMA ThreadParentIsDeal ==
    ASSUME DealsType, NEW m
    PROVE  ThreadParent(m) \in DealIds \cup {NoDeal}
<1>1. /\ Len(deals) \in Nat /\ DealIds = 1 .. Len(deals)
  BY DEF DealsType, DealIds
<1>2. ASSUME NEW S \in SUBSET DealIds PROVE Newest(S) \in DealIds \cup {NoDeal}
  <2>1. S \in SUBSET (0 .. Len(deals))
    BY <1>1
  <2>2. S # {} => Max(S) \in S
    BY <1>1, <2>1, MaxExists
  <2> QED BY <2>2 DEF Newest
<1> QED BY <1>2 DEF ThreadParent, FindThread

\* A deal stays the deal of its item.
ItemsStay == \A d \in DealIds : deals'[d].item = deals[d].item

\* Every way the deals change.
LEMMA DealsAreKept ==
    ASSUME DealsType,
           \/ UNCHANGED deals
           \/ \E m \in Mails : Ensures(m)
           \/ \E d \in DealIds, at \in 0 .. MaxTime : RecordsReply(d, at)
           \/ \E d \in DealIds : deals' = [deals EXCEPT ![d].closed = TRUE]
    PROVE  DealsType' /\ DealIds \subseteq DealIds' /\ ItemsStay
<1>1. CASE UNCHANGED deals
  BY <1>1 DEF DealsType, DealIds, ItemsStay
<1>2. ASSUME NEW m \in Mails, Ensures(m)
      PROVE  DealsType' /\ DealIds \subseteq DealIds' /\ ItemsStay
  <2>1. CASE DealOf(m) # {}
    BY <1>1, <1>2, <2>1 DEF Ensures
  <2>2. CASE DealOf(m) = {}
    <3> DEFINE row == [item |-> m, closed |-> FALSE, replied |-> Never]
    <3>1. row \in DealRow /\ row.item = m
      BY MailsAssumption DEF DealRow, Never
    <3>2. deals' = Append(deals, row)
      BY <1>2, <2>2 DEF Ensures
    <3>3. \A d \in DealIds : deals[d].item # m
      BY <2>2 DEF DealOf
    <3> HIDE DEF row
    <3> QED BY <3>1, <3>2, <3>3 DEF DealsType, DealIds, ItemsStay
  <2> QED BY <2>1, <2>2
<1>3. ASSUME NEW d \in DealIds, NEW r \in DealRow, r.item = deals[d].item,
             deals' = [deals EXCEPT ![d] = r]
      PROVE  DealsType' /\ DealIds \subseteq DealIds' /\ ItemsStay
  BY <1>3 DEF DealsType, DealIds, ItemsStay
<1>4. ASSUME NEW d \in DealIds, NEW at \in 0 .. MaxTime, RecordsReply(d, at)
      PROVE  DealsType' /\ DealIds \subseteq DealIds' /\ ItemsStay
  <2> DEFINE r == [deals[d] EXCEPT !.replied = at]
  <2>1. deals[d] \in DealRow
    BY DEF DealsType, DealIds
  <2>2. r \in DealRow /\ r.item = deals[d].item
    BY <2>1 DEF DealRow
  <2>3. deals' = [deals EXCEPT ![d] = r]
    BY <1>4 DEF RecordsReply
  <2> HIDE DEF r
  <2> QED BY <1>3, <2>2, <2>3
<1>5. ASSUME NEW d \in DealIds, deals' = [deals EXCEPT ![d].closed = TRUE]
      PROVE  DealsType' /\ DealIds \subseteq DealIds' /\ ItemsStay
  <2> DEFINE r == [deals[d] EXCEPT !.closed = TRUE]
  <2>1. deals[d] \in DealRow
    BY DEF DealsType, DealIds
  <2>2. r \in DealRow /\ r.item = deals[d].item
    BY <2>1 DEF DealRow
  <2>3. deals' = [deals EXCEPT ![d] = r]
    BY <1>5
  <2> HIDE DEF r
  <2> QED BY <1>3, <2>2, <2>3
<1> QED BY <1>1, <1>2, <1>4, <1>5

LEMMA IdleIsThread == /\ Idle \in Thread /\ Idle.target = NoDeal /\ Idle.at = "rest"
                      /\ BoardIdle \in Load /\ BoardIdle.target = NoDeal
                      /\ BoardIdle.at = "rest"
<1> DEFINE some == CHOOSE m \in Mails : TRUE
<1>1. some \in AnyMail
  BY DEF AnyMail
<1>2. /\ Idle = [at |-> "rest", by |-> "none", mail |-> some, row |-> 0,
                 target |-> NoDeal, remember |-> FALSE]
      /\ BoardIdle = [at |-> "rest", todo |-> {}, target |-> NoDeal, fresh |-> FALSE,
                      mail |-> some]
  BY DEF Idle, BoardIdle
<1> HIDE DEF some
<1> QED BY <1>1, <1>2 DEF Thread, Load, NoDeal, Places, Routes

\* A thread goes on, or rests; the others stay where they are.
LEMMA ThreadIsKept ==
    ASSUME ProcType, DealIds \subseteq DealIds', NEW p \in Requests, NEW r \in Thread,
           proc' = [proc EXCEPT ![p] = r],
           r.at # "rest" => r.mail \in Mails,
           r.target \in DealIds \cup {NoDeal}
    PROVE  ProcType'
BY DEF ProcType, At, Mail

LEMMA ThreadGoes ==
    ASSUME DealsType, ProcType, DealIds \subseteq DealIds', NEW p \in Requests,
           ~ At(p, "rest"), NEW place \in Places,
           \/ Goes(p, place) \/ Rests(p)
           \/ proc' = [proc EXCEPT ![p].at = place, ![p].target = ThreadParent(Mail(p))]
           \/ \E b \in BOOLEAN : proc' = [proc EXCEPT ![p].at = place, ![p].remember = b]
    PROVE  ProcType'
<1>1. /\ proc[p] \in Thread /\ Mail(p) \in Mails /\ Mail(p) = proc[p].mail
      /\ proc[p].target \in DealIds \cup {NoDeal}
  BY DEF ProcType, Mail
<1>2. CASE Rests(p)
  BY <1>2, IdleIsThread, ThreadIsKept DEF Rests
<1>3. CASE Goes(p, place)
  <2> DEFINE r == [proc[p] EXCEPT !.at = place]
  <2>1. r \in Thread /\ r.mail = Mail(p) /\ r.target = proc[p].target
    BY <1>1 DEF Thread
  <2>2. proc' = [proc EXCEPT ![p] = r]
    BY <1>3 DEF Goes, ProcType
  <2> HIDE DEF r
  <2> QED BY <1>1, <2>1, <2>2, ThreadIsKept
<1>4. CASE proc' = [proc EXCEPT ![p].at = place, ![p].target = ThreadParent(Mail(p))]
  <2> DEFINE d == ThreadParent(Mail(p))
             r == [proc[p] EXCEPT !.at = place, !.target = d]
  <2>1. d \in Nat /\ d \in DealIds \cup {NoDeal}
    <3>1. DealIds \subseteq Nat /\ NoDeal \in Nat
      BY DEF DealsType, DealIds, NoDeal
    <3> QED BY <3>1, ThreadParentIsDeal
  <2>2. proc' = [proc EXCEPT ![p] = r]
    BY <1>4 DEF ProcType
  <2> HIDE DEF d
  <2>3. r \in Thread /\ r.mail = Mail(p) /\ r.target = d
    BY <1>1, <2>1 DEF Thread
  <2> HIDE DEF r
  <2> QED BY <1>1, <2>1, <2>2, <2>3, ThreadIsKept
<1>5. ASSUME NEW b \in BOOLEAN, proc' = [proc EXCEPT ![p].at = place, ![p].remember = b]
      PROVE  ProcType'
  <2> DEFINE r == [proc[p] EXCEPT !.at = place, !.remember = b]
  <2>1. r \in Thread /\ r.mail = Mail(p) /\ r.target = proc[p].target
    BY <1>1 DEF Thread
  <2>2. proc' = [proc EXCEPT ![p] = r]
    BY <1>5 DEF ProcType
  <2> HIDE DEF r
  <2> QED BY <1>1, <2>1, <2>2, ThreadIsKept
<1> QED BY <1>2, <1>3, <1>4, <1>5

\* A thread begins with a mail.
LEMMA ThreadStarts ==
    ASSUME TypeInv, NEW p \in Requests, NEW m \in Mails, NEW by \in Routes,
           NEW place \in Places, UNCHANGED deals, Starts(p, m, by, place)
    PROVE  ProcType'
<1> DEFINE r == [Idle EXCEPT !.at = place, !.by = by, !.mail = m, !.row = held[m].rid]
<1>1. held[m].rid \in Nat
  BY DEF TypeInv, Row
<1>2. r \in Thread /\ r.mail = m /\ r.target = NoDeal
  BY <1>1, IdleIsThread DEF Thread, AnyMail
<1>3. proc' = [proc EXCEPT ![p] = r]
  BY DEF Starts
<1> HIDE DEF r
<1> QED BY <1>2, <1>3, ThreadIsKept DEF TypeInv, DealIds

\* What a record leaves of the table.
LEMMA UpsertIsTyped ==
    ASSUME held \in [Mails -> Row], NEW m \in Mails, NEW code \in Codes
    PROVE  /\ Upsert(m, code) \in [Mails -> Row]
           /\ \A n \in Mails \ {m} : Upsert(m, code)[n] = held[n]
           /\ Upsert(m, code)[m].code = code
           /\ \/ /\ held[m].status = "none"
                 /\ Upsert(m, code)[m].status = Open
                 /\ Upsert(m, code)[m].rid = held[m].rid + 1
              \/ /\ Upsert(m, code)[m].status = held[m].status
                 /\ Upsert(m, code)[m].rid = held[m].rid
                 /\ held[m].status # "none"
<1>1. held[m] \in Row
  OBVIOUS
<1> DEFINE new == [status |-> Open, code |-> code, rid |-> held[m].rid + 1]
           old == [held[m] EXCEPT !.code = code]
<1>2. new \in Row /\ old \in Row /\ old.code = code /\ old.rid = held[m].rid
      /\ old.status = held[m].status
  BY <1>1 DEF Row
<1>3. new.code = code /\ new.status = Open /\ new.rid = held[m].rid + 1
  OBVIOUS
<1>4. Upsert(m, code) = [held EXCEPT ![m] = IF held[m].status = "none" THEN new ELSE old]
  BY DEF Upsert
<1> HIDE DEF new, old
<1> QED BY <1>2, <1>3, <1>4

LEMMA AbsentIsTyped ==
    ASSUME NEW row \in Row
    PROVE  Absent(row) \in Row /\ Absent(row).status = "none" /\ Absent(row).rid = row.rid
BY DEF Absent, Row, Codes

LEMMA StatusIsTyped ==
    ASSUME held \in [Mails -> Row], NEW m \in Mails,
           NEW status \in {"none", Open, Recovered, Dismissed},
           held' = [held EXCEPT ![m].status = status]
    PROVE  /\ held' \in [Mails -> Row]
           /\ \A n \in Mails \ {m} : held'[n] = held[n]
           /\ held'[m].status = status /\ held'[m].rid = held[m].rid
           /\ held'[m].code = held[m].code
<1> DEFINE r == [held[m] EXCEPT !.status = status]
<1>1. held[m] \in Row
  OBVIOUS
<1>2. r \in Row /\ r.status = status /\ r.rid = held[m].rid /\ r.code = held[m].code
  BY <1>1 DEF Row
<1>3. held' = [held EXCEPT ![m] = r]
  OBVIOUS
<1> HIDE DEF r
<1> QED BY <1>2, <1>3

-----------------------------------------------------------------------------
(* Type correctness.                                                       *)

LEMMA RequestKeepsType ==
    ASSUME TypeInv, NEW p \in Requests, RequestStep(p) \/ Fails(p)
    PROVE  TypeInv'
<1> USE DEF Places
<1>0. /\ now \in 0 .. MaxTime /\ seen \in [Mails -> 0 .. MaxTime] /\ held \in [Mails -> Row]
      /\ DealsType /\ ProcType /\ BoardType
      /\ \A q \in Requests : ~ At(q, "rest") => Mail(q) \in Mails
      /\ proc[p].target \in DealIds \cup {NoDeal}
  BY MailsAssumption DEF TypeInv, ProcType
<1>1. UNCHANGED deals => DealsType' /\ DealIds \subseteq DealIds'
  BY <1>0 DEF DealsType, DealIds
<1>2. DealIds \subseteq DealIds' /\ UNCHANGED board => BoardType'
  BY <1>0 DEF BoardType
<1>3. CASE Records(p)
  <2> DEFINE m    == Mail(p)
             code == IF m.known THEN "unparsed" ELSE "sender_not_allowed"
             U    == Upsert(m, code)
  <2>1. m \in Mails /\ code \in Codes /\ ~ At(p, "rest")
    BY <1>0, <1>3 DEF Records, At, Codes
  <2>2. U \in [Mails -> Row]
    BY <1>0, <2>1, UpsertIsTyped
  <2>3. /\ \/ UNCHANGED held
           \/ \E S \in Shed(U) : held' = [n \in Mails |-> IF n \in S THEN Absent(U[n]) ELSE U[n]]
        /\ Rests(p)
        /\ UNCHANGED <<deals, seen, responses, board, now>>
    BY <1>3 DEF Records, ghosts
  <2> HIDE DEF U, m, code
  <2>4. held' \in [Mails -> Row]
    BY <1>0, <2>2, <2>3, AbsentIsTyped
  <2>5. ProcType'
    BY <1>0, <1>1, <2>1, <2>3, ThreadGoes
  <2> QED BY <1>1, <1>2, <2>3, <2>4, <2>5 DEF TypeInv
<1>4. CASE Claims(p)
  <2>1. ProcType'
    BY <1>0, <1>1, <1>4, ThreadGoes DEF Claims, At
  <2>2. seen' \in [Mails -> 0 .. MaxTime]
    BY <1>0, <1>4 DEF Claims
  <2> QED BY <1>1, <1>2, <1>4, <2>1, <2>2 DEF Claims, TypeInv
<1>5. CASE Finds(p) \/ Resolves(p)
  <2>1. ProcType'
    BY <1>0, <1>1, <1>5, ThreadGoes DEF Finds, Resolves, At, tables
  <2> QED BY <1>1, <1>2, <1>5, <2>1 DEF Finds, Resolves, TypeInv, tables
<1>6. CASE OnBoard(p) \/ Applies(p)
  <2>1. ~ At(p, "rest") /\ Mail(p) \in Mails
    BY <1>0, <1>6 DEF OnBoard, Applies, At
  <2>2. DealsType' /\ DealIds \subseteq DealIds'
    BY <1>0, <1>6, <2>1, DealsAreKept DEF OnBoard, Applies, Lands
  <2>3. ProcType'
    BY <1>0, <1>6, <2>1, <2>2, ThreadGoes DEF OnBoard, Applies
  <2> QED BY <1>2, <1>6, <2>2, <2>3 DEF OnBoard, Applies, TypeInv
<1>7. CASE Remembers(p)
  <2>1. ProcType'
    BY <1>0, <1>1, <1>7, ThreadGoes DEF Remembers, At
  <2>2. seen' \in [Mails -> 0 .. MaxTime]
    BY <1>0, <1>7 DEF Remembers
  <2> QED BY <1>1, <1>2, <1>7, <2>1, <2>2 DEF Remembers, TypeInv
<1>8. CASE Answers(p)
  <2>1. ProcType'
    BY <1>0, <1>1, <1>8, ThreadGoes DEF Answers, At
  <2>2. \A d \in DealIds : deals[d].item \in Mails
    <3>1. \A d \in DealIds : deals[d] \in DealRow
      BY <1>0 DEF DealsType, DealIds
    <3> QED BY <3>1 DEF DealRow
  <2>3. Mail(p) \in Mails
    BY <1>0, <1>8 DEF Answers, At
  <2>4. responses' \subseteq Mails
    BY <1>0, <1>8, <2>2, <2>3 DEF Answers, TypeInv
  <2> QED BY <1>1, <1>2, <1>8, <2>1, <2>4 DEF Answers, TypeInv
<1>9. CASE Marks(p) \/ Reopens(p)
  <2>1. ProcType'
    BY <1>0, <1>1, <1>9, ThreadGoes DEF Marks, Reopens, At
  <2>2. Mail(p) \in Mails /\ held[Mail(p)] \in Row
    BY <1>0, <1>9 DEF Marks, Reopens, At
  <2>3. \/ UNCHANGED held
        \/ \E status \in {"none", Open, Recovered, Dismissed} :
               held' = [held EXCEPT ![Mail(p)].status = status]
    BY <1>9, <2>2 DEF Marks, Reopens, Row
  <2>4. held' \in [Mails -> Row]
    BY <1>0, <2>2, <2>3, StatusIsTyped
  <2> QED BY <1>1, <1>2, <1>9, <2>1, <2>4 DEF Marks, Reopens, TypeInv
<1>10. CASE Looks(p)
  <2>1. ProcType'
    <3>1. ~ At(p, "rest") /\ UNCHANGED deals
      BY <1>10 DEF Looks, At, tables
    <3>2. \/ Rests(p) \/ Goes(p, "drafting")
          \/ \E b \in BOOLEAN : proc' = [proc EXCEPT ![p].at = "finding", ![p].remember = b]
      BY <1>10 DEF Looks
    <3> QED BY <1>0, <1>1, <3>1, <3>2, ThreadGoes
  <2> QED BY <1>1, <1>2, <1>10, <2>1 DEF Looks, TypeInv, tables
<1>11. CASE Fails(p)
  <2>1. ~ At(p, "rest") /\ UNCHANGED <<deals, seen, held, responses, board, now>>
    BY <1>11 DEF Fails, At, tables
  <2>2. Rests(p) \/ Goes(p, AfterFailure(p))
    BY <1>11 DEF Fails
  <2>3. AfterFailure(p) \in Places
    BY DEF AfterFailure
  <2>4. ProcType'
    BY <1>0, <1>1, <2>1, <2>2, <2>3, ThreadGoes
  <2> QED BY <1>1, <1>2, <2>1, <2>4 DEF TypeInv
<1> QED BY <1>3, <1>4, <1>5, <1>6, <1>7, <1>8, <1>9, <1>10, <1>11 DEF RequestStep

LEMMA BoardKeepsType ==
    ASSUME TypeInv, BoardStep \/ BoardFails
    PROVE  TypeInv'
<1>0. /\ now \in 0 .. MaxTime /\ seen \in [Mails -> 0 .. MaxTime]
      /\ DealsType /\ ProcType /\ BoardType
  BY MailsAssumption DEF TypeInv
<1>1. UNCHANGED deals => DealsType' /\ DealIds \subseteq DealIds'
  BY <1>0 DEF DealsType, DealIds
<1>2. DealIds \subseteq DealIds' /\ UNCHANGED proc => ProcType'
  BY <1>0 DEF ProcType, At, Mail
<1>3. Continue \in Load /\ Continue.at # "landing" /\ Continue.target \in DealIds \cup {NoDeal}
  BY <1>0, IdleIsThread DEF Continue, BoardType, Load
<1>4. CASE BoardLoads
  <2> DEFINE todo == {m \in Stored : DealOf(m) = {}}
  <2>1. todo \in SUBSET Mails
    BY DEF Stored
  <2>2. board' = [BoardIdle EXCEPT !.at = "picking", !.todo = todo]
    BY <1>4 DEF BoardLoads
  <2> HIDE DEF todo
  <2>3. /\ board' \in Load /\ board'.at # "landing"
        /\ board'.target = NoDeal
    BY <2>1, <2>2, IdleIsThread DEF Load
  <2>4. BoardType'
    BY <2>3 DEF BoardType
  <2> QED BY <1>1, <1>2, <1>4, <2>4 DEF BoardLoads, TypeInv, tables
<1>5. ASSUME NEW m \in Mails, BoardPicks(m) PROVE TypeInv'
  <2> DEFINE d     == ThreadParent(m)
             fresh == d = NoDeal \/ seen[m] > deals[d].replied
             todo  == board.todo \ {m}
  <2>1. d \in DealIds \cup {NoDeal} /\ d \in Nat
    <3>1. DealIds \subseteq Nat /\ NoDeal \in Nat
      BY <1>0 DEF DealsType, DealIds, NoDeal
    <3> QED BY <1>0, <3>1, ThreadParentIsDeal
  <2>2. fresh \in BOOLEAN
    OBVIOUS
  <2>3. todo \in SUBSET Mails
    BY <1>0 DEF BoardType, Load
  <2>4. board' = [board EXCEPT !.at = "landing", !.todo = todo, !.mail = m,
                               !.target = d, !.fresh = fresh]
    BY <1>0, <1>5 DEF BoardPicks, BoardType, Load
  <2> HIDE DEF d, fresh, todo
  <2>5. board' \in Load /\ board'.mail = m /\ board'.target = d
    BY <1>0, <2>1, <2>2, <2>3, <2>4 DEF BoardType, Load, AnyMail
  <2>6. UNCHANGED deals
    BY <1>5 DEF BoardPicks, tables
  <2>7. BoardType'
    BY <1>1, <2>1, <2>5, <2>6 DEF BoardType
  <2> QED BY <1>1, <1>2, <1>5, <2>7 DEF BoardPicks, TypeInv, tables
<1>6. CASE BoardLands
  <2>1. /\ board.mail \in Mails /\ board.target \in DealIds \cup {NoDeal}
        /\ seen[board.mail] \in 0 .. MaxTime
    BY <1>0, <1>6 DEF BoardLands, BoardType
  <2>2. DealsType' /\ DealIds \subseteq DealIds'
    BY <1>0, <1>6, <2>1, DealsAreKept DEF BoardLands
  <2>3. BoardType'
    BY <1>3, <1>6, <2>2 DEF BoardLands, BoardType
  <2> QED BY <1>2, <1>6, <2>2, <2>3 DEF BoardLands, TypeInv
<1>7. CASE BoardFails
  <2>1. BoardType'
    BY <1>1, <1>3, <1>7 DEF BoardFails, BoardType, tables
  <2> QED BY <1>1, <1>2, <1>7, <2>1 DEF BoardFails, TypeInv, tables
<1> QED BY <1>4, <1>5, <1>6, <1>7 DEF BoardStep

LEMMA WorldKeepsType ==
    ASSUME TypeInv,
           \/ \E p \in Requests, m \in Mails : Arrives(p, m) \/ Retries(p, m)
           \/ \E m \in Mails : Dismisses(m)
           \/ \E d \in DealIds : Closes(d)
           \/ Crash \/ Deploys \/ Tick
    PROVE  TypeInv'
<1>0. /\ now \in 1 .. MaxTime /\ held \in [Mails -> Row]
      /\ DealsType /\ ProcType /\ BoardType
  BY DEF TypeInv
<1>1. UNCHANGED deals => DealsType' /\ DealIds \subseteq DealIds'
  BY <1>0 DEF DealsType, DealIds
<1>2. DealIds \subseteq DealIds' /\ UNCHANGED proc => ProcType'
  BY <1>0 DEF ProcType, At, Mail
<1>3. DealIds \subseteq DealIds' /\ UNCHANGED board => BoardType'
  BY <1>0 DEF BoardType
<1>4. ASSUME NEW p \in Requests, NEW m \in Mails, Arrives(p, m) \/ Retries(p, m)
      PROVE  TypeInv'
  <2>1. UNCHANGED <<deals, seen, held, responses, board, now>>
    BY <1>4 DEF Arrives, Retries, tables
  <2>2. \E by \in Routes, place \in Places : Starts(p, m, by, place)
    BY <1>4 DEF Arrives, Retries, Routes, Places
  <2>3. ProcType'
    BY <2>1, <2>2, ThreadStarts
  <2> QED BY <1>1, <1>3, <2>1, <2>3 DEF TypeInv
<1>5. ASSUME NEW m \in Mails, Dismisses(m) PROVE TypeInv'
  <2>1. held' \in [Mails -> Row]
    BY <1>0, <1>5, StatusIsTyped DEF Dismisses
  <2> QED BY <1>1, <1>2, <1>3, <1>5, <2>1 DEF Dismisses, TypeInv
<1>6. ASSUME NEW d \in DealIds, Closes(d) PROVE TypeInv'
  <2>1. DealsType' /\ DealIds \subseteq DealIds'
    BY <1>0, <1>6, DealsAreKept DEF Closes
  <2> QED BY <1>2, <1>3, <1>6, <2>1 DEF Closes, TypeInv
<1>7. CASE Crash
  <2>1. ProcType' /\ BoardType'
    BY <1>7, IdleIsThread DEF Crash, ProcType, BoardType, At
  <2> QED BY <1>1, <1>7, <2>1 DEF Crash, TypeInv, tables
<1>8. CASE Deploys
  BY <1>1, <1>2, <1>3, <1>8 DEF Deploys, TypeInv, tables
<1>9. CASE Tick
  <2>1. now' \in 1 .. MaxTime
    BY <1>0, <1>9, MailsAssumption DEF Tick
  <2> QED BY <1>1, <1>2, <1>3, <1>9, <2>1 DEF Tick, TypeInv, tables
<1> QED BY <1>4, <1>5, <1>6, <1>7, <1>8, <1>9

LEMMA TypeInvHolds == Spec => []TypeInv
<1>1. Init => TypeInv
  <2> SUFFICES ASSUME Init PROVE TypeInv
    OBVIOUS
  <2>1. now \in 1 .. MaxTime /\ seen \in [Mails -> 0 .. MaxTime] /\ responses \subseteq Mails
    BY MailsAssumption DEF Init, Never
  <2>2. held \in [Mails -> Row]
    BY DEF Init, NoRow, Row, Codes
  <2>3. DealsType
    BY DEF Init, DealsType, DealIds
  <2>4. ProcType /\ BoardType
    BY IdleIsThread DEF Init, ProcType, BoardType, At
  <2> QED BY <2>1, <2>2, <2>3, <2>4 DEF TypeInv
<1>2. TypeInv /\ [Next]_vars => TypeInv'
  <2> SUFFICES ASSUME TypeInv, [Next]_vars PROVE TypeInv'
    OBVIOUS
  <2>1. CASE UNCHANGED vars
    BY <2>1 DEF vars, tables, TypeInv, DealsType, ProcType, BoardType, DealIds, At, Mail
  <2>2. CASE Next
    BY <2>2, RequestKeepsType, BoardKeepsType, WorldKeepsType DEF Next
  <2> QED BY <2>1, <2>2
<1> QED BY <1>1, <1>2, PTL DEF Spec

\* No item has two deals, whoever opens it - webhook, retry, drafting or
\* backfill - and what find_thread found a moment ago is still a deal.
THEOREM TypeCorrect == Spec => []TypeOK
<1>1. TypeInv => TypeOK
  <2> SUFFICES ASSUME TypeInv PROVE TypeOK
    OBVIOUS
  <2>1. \A d \in DealIds : deals[d] \in DealRow
    BY DEF TypeInv, DealsType, DealIds
  <2>2. \A m \in Mails : held[m] \in Row
    BY DEF TypeInv
  <2> QED BY <2>1, <2>2 DEF TypeInv, TypeOK, DealsType, ProcType, DealRow, Row
<1> QED BY <1>1, TypeInvHolds, PTL

-----------------------------------------------------------------------------
(* The claim of a rejected row.                                            *)

\* A retry that is half-way, on a row that has not been shed since.
Holds(p) == HalfWay(p) /\ RowIs(p)

\* Which route gets where.
Routed(p) == /\ proc[p].at \in {"marking", "looking", "reopening"} => proc[p].by = "retry"
             /\ proc[p].at = "claiming" => proc[p].by # "retry"

\* While a retry is half-way it is the only one on its row, and the row says
\* `recovered`.  A row that is shed and comes back has another id, so nobody
\* holds on to it.
ClaimInv ==
    /\ \A p \in Requests :
           /\ Routed(p)
           /\ ~ At(p, "rest") => proc[p].row <= held[Mail(p)].rid
           /\ Holds(p) => held[Mail(p)].status = Recovered
    /\ \A p, q \in Requests :
           Holds(p) /\ Holds(q) /\ Mail(p) = Mail(q) => p = q

\* A row that says `recovered` belongs to a mail that has arrived somewhere,
\* unless a retry is still at work on it or died.
RecoveredInv ==
    \A m \in Mails :
        held[m].status = Recovered =>
            \/ m \in torn
            \/ m.says \in landed \/ AlreadySeen(m)
            \/ \E p \in Requests : Holds(p) /\ Mail(p) = m

\* The ways a row changes other than by a claim or a dismissal.
RowKept(m)   == held'[m].status = held[m].status /\ held'[m].rid = held[m].rid
RowGone(m)   == held'[m].status = "none" /\ held'[m].rid >= held[m].rid
RowOpened(m) == /\ held[m].status = "none" /\ held'[m].status = Open
                /\ held'[m].rid = held[m].rid + 1
RowChanges == \A m \in Mails : RowKept(m) \/ RowGone(m) \/ RowOpened(m)

\* The ways a thread moves: on with what it has, or from rest.
Proceeds(q) == /\ ~ At(q, "rest")
               /\ Mail(q)' = Mail(q) /\ proc'[q].row = proc[q].row
               /\ HalfWay(q)' => HalfWay(q)
               /\ Routed(q)'
Begins(q)   == /\ ~ HalfWay(q)' /\ proc'[q].row = held'[Mail(q)'].rid
               /\ Routed(q)'

\* A step that claims no row, hands none back and dismisses none; a retry that
\* lets go of a row leaves the mail somewhere, or dies.
Ordinary ==
    /\ RowChanges
    /\ torn \subseteq torn' /\ landed \subseteq landed' /\ Stored \subseteq Stored'
    /\ \A q \in Requests : At(q, "rest")' \/ Proceeds(q) \/ Begins(q)
    /\ \A q \in Requests, m \in Mails : Holds(q) /\ Mail(q) = m =>
           \/ HalfWay(q)' /\ Proceeds(q)
           \/ m \in torn' \/ m.says \in landed' \/ AlreadySeen(m)'

LEMMA RestHoldsNothing ==
    ASSUME NEW p PROVE ~ At(p, "rest") \/ ~ HalfWay(p)
BY DEF At, HalfWay

LEMMA OrdinaryKeepsClaims ==
    ASSUME TypeInv, TypeInv', ClaimInv, Ordinary
    PROVE  ClaimInv'
<1>1. ASSUME NEW q \in Requests, Holds(q)'
      PROVE  Holds(q) /\ Mail(q)' = Mail(q) /\ RowKept(Mail(q)) /\ Mail(q) \in Mails
  <2>1. Proceeds(q)
    BY <1>1 DEF Ordinary, Holds, At, HalfWay, Begins
  <2>2. /\ Mail(q) \in Mails /\ HalfWay(q) /\ Mail(q)' = Mail(q)
        /\ proc[q].row <= held[Mail(q)].rid
        /\ held'[Mail(q)].status # "none" /\ held'[Mail(q)].rid = proc[q].row
    BY <1>1, <2>1 DEF Proceeds, Holds, RowIs, Rows, ClaimInv, TypeInv, ProcType
  <2>3. held[Mail(q)].rid \in Nat /\ proc[q].row \in Nat
    BY <2>2 DEF TypeInv, ProcType, Row, Thread
  <2>4. RowKept(Mail(q))
    BY <2>2, <2>3 DEF Ordinary, RowChanges, RowGone, RowOpened
  <2> QED BY <2>2, <2>4 DEF Holds, RowIs, Rows, RowKept
<1>2. ASSUME NEW q \in Requests
      PROVE  /\ Routed(q)'
             /\ ~ At(q, "rest")' => proc'[q].row <= held'[Mail(q)'].rid
  <2>1. CASE At(q, "rest")'
    BY <2>1 DEF At, Routed
  <2>2. CASE Proceeds(q)
    <3>1. /\ Mail(q) \in Mails /\ proc[q].row <= held[Mail(q)].rid
      BY <2>2 DEF Proceeds, ClaimInv, TypeInv, ProcType
    <3>2. held[Mail(q)] \in Row /\ held'[Mail(q)] \in Row /\ proc[q] \in Thread
      BY <3>1 DEF TypeInv, ProcType
    <3>3. held'[Mail(q)].rid >= held[Mail(q)].rid
      BY <3>1, <3>2 DEF Ordinary, RowChanges, RowKept, RowGone, RowOpened, Row
    <3> QED BY <2>2, <3>1, <3>2, <3>3 DEF Proceeds, Row, Thread
  <2>3. CASE Begins(q) /\ ~ At(q, "rest")'
    <3>1. Mail(q)' \in Mails
      BY <2>3 DEF TypeInv, ProcType
    <3>2. held'[Mail(q)'] \in Row
      BY <3>1 DEF TypeInv
    <3> QED BY <2>3, <3>2 DEF Begins, Row
  <2> QED BY <2>1, <2>2, <2>3 DEF Ordinary
<1>3. ASSUME NEW q \in Requests, Holds(q)' PROVE held'[Mail(q)'].status = Recovered
  BY <1>1, <1>3 DEF ClaimInv, RowKept
<1>4. ASSUME NEW p \in Requests, NEW q \in Requests,
             Holds(p)', Holds(q)', Mail(p)' = Mail(q)'
      PROVE  p = q
  BY <1>1, <1>4 DEF ClaimInv
<1> QED BY <1>2, <1>3, <1>4 DEF ClaimInv

LEMMA SeenStays ==
    ASSUME Stored \subseteq Stored', NEW m, AlreadySeen(m)
    PROVE  AlreadySeen(m)'
BY DEF AlreadySeen, SameMessage

LEMMA OrdinaryKeepsRecovered ==
    ASSUME TypeInv, RecoveredInv, Ordinary
    PROVE  RecoveredInv'
<1> SUFFICES ASSUME NEW m \in Mails, held'[m].status = Recovered
             PROVE  \/ m \in torn'
                    \/ m.says \in landed' \/ AlreadySeen(m)'
                    \/ \E p \in Requests : Holds(p)' /\ Mail(p)' = m
  BY DEF RecoveredInv
<1>1. RowKept(m)
  BY DEF Ordinary, RowChanges, RowGone, RowOpened, Recovered, Open
<1>2. CASE m \in torn \/ m.says \in landed \/ AlreadySeen(m)
  BY <1>2, SeenStays DEF Ordinary
<1>3. ASSUME NEW p \in Requests, Holds(p), Mail(p) = m
      PROVE  \/ m \in torn' \/ m.says \in landed' \/ AlreadySeen(m)'
             \/ Holds(p)' /\ Mail(p)' = m
  <2>1. CASE HalfWay(p)' /\ Proceeds(p)
    BY <1>1, <1>3, <2>1 DEF Proceeds, Holds, RowIs, Rows, RowKept, Recovered
  <2> QED BY <1>3, <2>1 DEF Ordinary
<1> QED BY <1>1, <1>2, <1>3 DEF RecoveredInv, RowKept

\* A step that leaves the table of rows alone.
LEMMA NoRowChanges ==
    ASSUME UNCHANGED held
    PROVE  RowChanges
BY DEF RowChanges, RowKept

LEMMA SeenGrows ==
    ASSUME TypeInv,
           \/ UNCHANGED seen
           \/ \E m \in Mails : seen' = [seen EXCEPT ![m] = now]
    PROVE  Stored \subseteq Stored'
BY DEF Stored, TypeInv, Never

\* What a thread's own step does to it, and leaves of the others.
LEMMA OneThreadMoves ==
    ASSUME TypeInv, NEW p \in Requests, ~ At(p, "rest"), NEW place \in Places,
           \/ Goes(p, place) \/ Rests(p)
           \/ proc' = [proc EXCEPT ![p].at = place, ![p].target = ThreadParent(Mail(p))]
           \/ \E b \in BOOLEAN : proc' = [proc EXCEPT ![p].at = place, ![p].remember = b]
    PROVE  /\ \A q \in Requests \ {p} : proc'[q] = proc[q]
           /\ \/ At(p, "rest")'
              \/ /\ proc'[p].at = place /\ proc'[p].by = proc[p].by
                 /\ Mail(p)' = Mail(p) /\ proc'[p].row = proc[p].row
<1>1. proc \in [Requests -> Thread] /\ proc[p] \in Thread
  BY DEF TypeInv, ProcType
<1> QED BY <1>1, IdleIsThread DEF Goes, Rests, At, Mail, Thread

\* The others are neither helped nor hindered.
LEMMA OthersGoOn ==
    ASSUME ClaimInv, NEW q \in Requests, proc'[q] = proc[q]
    PROVE  /\ At(q, "rest")' \/ Proceeds(q)
           /\ Holds(q) => HalfWay(q)' /\ Proceeds(q)
BY DEF ClaimInv, Proceeds, At, Mail, HalfWay, Holds, Routed

\* A request's step is ordinary, but for a claim that succeeds and a hand-over.
LEMMA RequestIsOrdinary ==
    ASSUME TypeInv, ClaimInv, NEW p \in Requests,
           \/ Records(p) \/ Claims(p) \/ Finds(p) \/ OnBoard(p) \/ Remembers(p)
           \/ Resolves(p) \/ Answers(p) \/ Applies(p) \/ Looks(p) \/ Fails(p)
    PROVE  Ordinary
<1> DEFINE OwnMove == /\ \/ At(p, "rest")' \/ Proceeds(p)
                      /\ \A m \in Mails : Holds(p) /\ Mail(p) = m =>
                             \/ HalfWay(p)' /\ Proceeds(p)
                             \/ m \in torn' \/ m.says \in landed' \/ AlreadySeen(m)'
<1>1. /\ held \in [Mails -> Row] /\ ~ At(p, "rest") /\ Mail(p) \in Mails
      /\ Routed(p)
  BY DEF TypeInv, ClaimInv, ProcType, At, Records, Claims, Finds, OnBoard, Remembers,
         Resolves, Answers, Applies, Looks, Fails
<1>2. ASSUME \A q \in Requests \ {p} : proc'[q] = proc[q], OwnMove, RowChanges,
             torn \subseteq torn', landed \subseteq landed', Stored \subseteq Stored'
      PROVE  Ordinary
  BY <1>2, OthersGoOn DEF Ordinary
<1>3. CASE Records(p)
  <2> DEFINE m    == Mail(p)
             code == IF m.known THEN "unparsed" ELSE "sender_not_allowed"
             U    == Upsert(m, code)
  <2>1. code \in Codes
    BY DEF Codes
  <2>2. /\ \/ UNCHANGED held
           \/ \E S \in Shed(U) : held' = [n \in Mails |-> IF n \in S THEN Absent(U[n]) ELSE U[n]]
        /\ Rests(p) /\ UNCHANGED <<torn, landed, seen>>
    BY <1>3 DEF Records, ghosts
  <2>3. /\ U \in [Mails -> Row]
        /\ \A n \in Mails : \/ U[n].status = held[n].status /\ U[n].rid = held[n].rid
                           \/ /\ held[n].status = "none" /\ U[n].status = Open
                              /\ U[n].rid = held[n].rid + 1
    <3> HIDE DEF code, m
    <3> QED BY <1>1, <2>1, UpsertIsTyped DEF m
  <2> HIDE DEF U, m, code
  <2>4. RowChanges
    <3>1. CASE UNCHANGED held
      BY <3>1, NoRowChanges
    <3>2. ASSUME NEW S \in Shed(U), NEW n \in Mails,
                 held' = [k \in Mails |-> IF k \in S THEN Absent(U[k]) ELSE U[k]]
          PROVE  RowKept(n) \/ RowGone(n) \/ RowOpened(n)
      <4>1. U[n] \in Row /\ held[n] \in Row
        BY <1>1, <2>3
      <4>2. CASE n \in S
        <5>1. held'[n].status = "none" /\ held'[n].rid = U[n].rid
          BY <3>2, <4>1, <4>2, AbsentIsTyped
        <5> QED BY <2>3, <4>1, <5>1 DEF RowGone, Row
      <4>3. CASE n \notin S
        BY <2>3, <3>2, <4>3 DEF RowKept, RowOpened
      <4> QED BY <4>2, <4>3
    <3> QED BY <2>2, <3>1, <3>2 DEF RowChanges
  <2>5. /\ \A q \in Requests \ {p} : proc'[q] = proc[q]
        /\ At(p, "rest")'
    BY <2>2, IdleIsThread DEF Rests, TypeInv, ProcType, At
  <2>6. ~ HalfWay(p)
    BY <1>3 DEF Records, At, HalfWay
  <2> QED BY <1>2, <2>2, <2>4, <2>5, <2>6, SeenGrows DEF Holds
<1>4. CASE \/ Claims(p) \/ Finds(p) \/ OnBoard(p) \/ Remembers(p)
           \/ Resolves(p) \/ Answers(p) \/ Applies(p) \/ Looks(p) \/ Fails(p)
  <2>1. /\ RowChanges /\ torn \subseteq torn' /\ landed \subseteq landed'
        /\ Stored \subseteq Stored'
    BY <1>1, <1>4, SeenGrows, NoRowChanges
       DEF Claims, Finds, OnBoard, Remembers, Resolves, Answers, Applies, Looks, Fails,
           Lands, tables, ghosts
  <2>2. ASSUME NEW place \in Places,
               \/ Goes(p, place) \/ Rests(p)
               \/ proc' = [proc EXCEPT ![p].at = place, ![p].target = ThreadParent(Mail(p))]
               \/ \E b \in BOOLEAN : proc' = [proc EXCEPT ![p].at = place, ![p].remember = b],
               place \in {"finding", "landing", "reopening"} => HalfWay(p) \/ proc[p].by # "retry",
               place \notin {"marking", "looking", "claiming"},
               place = "reopening" => proc[p].by = "retry",
               \A m \in Mails : Holds(p) /\ Mail(p) = m =>
                   \/ place \in {"finding", "landing", "reopening"} /\ ~ At(p, "rest")'
                   \/ m.says \in landed' \/ AlreadySeen(m)'
        PROVE  Ordinary
    <3>1. /\ \A q \in Requests \ {p} : proc'[q] = proc[q]
          /\ \/ At(p, "rest")'
             \/ /\ proc'[p].at = place /\ proc'[p].by = proc[p].by
                /\ Mail(p)' = Mail(p) /\ proc'[p].row = proc[p].row
      BY <1>1, <2>2, OneThreadMoves
    <3>2. At(p, "rest")' \/ Proceeds(p)
      BY <1>1, <2>2, <3>1 DEF Proceeds, HalfWay, Routed
    <3>3. ~ At(p, "rest")' /\ place \in {"finding", "landing", "reopening"} /\ Holds(p)
             => HalfWay(p)'
      BY <3>1 DEF HalfWay, Holds, At
    <3> QED BY <1>2, <2>1, <2>2, <3>1, <3>2, <3>3
  <2>3. CASE Claims(p)
    <3>1. proc[p].by # "retry" /\ ~ Holds(p)
      BY <1>1, <2>3 DEF Claims, At, Routed, Holds, HalfWay
    <3>2. Rests(p) \/ Goes(p, "finding")
      BY <2>3 DEF Claims
    <3> QED BY <2>2, <3>1, <3>2 DEF Places
  <2>4. CASE Finds(p)
    <3>1. /\ proc' = [proc EXCEPT ![p].at = "landing", ![p].target = ThreadParent(Mail(p))]
          /\ HalfWay(p) \/ proc[p].by # "retry"
      BY <2>4 DEF Finds, At, HalfWay
    <3>2. ~ At(p, "rest")'
      BY <1>1, <3>1 DEF TypeInv, ProcType, Thread, At
    <3> QED BY <2>2, <3>1, <3>2 DEF Places
  <2>5. CASE OnBoard(p)
    <3>1. Goes(p, "remembering") \/ Goes(p, "drafting")
      BY <2>5 DEF OnBoard
    <3>2. Mail(p).says \in landed'
      BY <2>5 DEF OnBoard, Lands
    <3> QED BY <2>2, <3>1, <3>2 DEF Places
  <2>6. CASE Remembers(p) \/ Resolves(p) \/ Answers(p) \/ Applies(p)
    <3>1. ~ Holds(p)
      BY <2>6 DEF Remembers, Resolves, Answers, Applies, At, Holds, HalfWay
    <3>2. \E place \in {"drafting", "answering", "applying"} :
              \/ Goes(p, place) \/ Rests(p)
              \/ proc' = [proc EXCEPT ![p].at = place, ![p].target = ThreadParent(Mail(p))]
      BY <2>6 DEF Remembers, Resolves, Answers, Applies
    <3> QED BY <2>2, <3>1, <3>2 DEF Places
  <2>7. CASE Looks(p)
    <3>1. UNCHANGED seen /\ proc[p].at = "looking" /\ proc[p].by = "retry" /\ HalfWay(p)
      BY <1>1, <2>7 DEF Looks, tables, At, Routed, HalfWay
    <3>2. CASE AlreadySeen(Mail(p)) /\ (Rests(p) \/ Goes(p, "drafting"))
      <4>1. \A m \in Mails : Mail(p) = m => AlreadySeen(m)'
        BY <2>1, <3>2, SeenStays
      <4> QED BY <2>2, <3>2, <4>1 DEF Places
    <3>3. CASE \E b \in BOOLEAN : proc' = [proc EXCEPT ![p].at = "finding", ![p].remember = b]
      <4>1. ~ At(p, "rest")'
        BY <1>1, <3>3 DEF TypeInv, ProcType, Thread, At
      <4> QED BY <2>2, <3>1, <3>3, <4>1 DEF Places
    <3> QED BY <2>7, <3>2, <3>3 DEF Looks
  <2>8. CASE Fails(p)
    <3>1. CASE AfterFailure(p) = "reopening"
      <4>1. /\ HalfWay(p) /\ proc[p].by = "retry" /\ Goes(p, "reopening")
        BY <2>8, <3>1 DEF Fails, AfterFailure, HalfWay
      <4>2. ~ At(p, "rest")'
        BY <1>1, <4>1 DEF TypeInv, ProcType, Thread, At, Goes
      <4> QED BY <2>2, <4>1, <4>2 DEF Places
    <3>2. CASE AfterFailure(p) # "reopening"
      <4>1. ~ HalfWay(p) /\ (Rests(p) \/ Goes(p, "drafting"))
        BY <1>1, <2>8, <3>2 DEF Fails, AfterFailure, HalfWay, At, Routed
      <4> QED BY <2>2, <4>1 DEF Places, Holds
    <3> QED BY <3>1, <3>2
  <2> QED BY <1>4, <2>3, <2>4, <2>5, <2>6, <2>7, <2>8
<1> QED BY <1>3, <1>4

LEMMA WorldIsOrdinary ==
    ASSUME TypeInv, ClaimInv,
           \/ \E p \in Requests, m \in Mails : Arrives(p, m) \/ Retries(p, m)
           \/ BoardStep \/ BoardFails \/ Crash \/ Deploys \/ Tick
           \/ \E d \in DealIds : Closes(d)
    PROVE  Ordinary
<1>1. ASSUME NEW p \in Requests, NEW m \in Mails, Arrives(p, m) \/ Retries(p, m)
      PROVE  Ordinary
  <2>1. /\ UNCHANGED <<held, seen, landed, torn>>
        /\ RowChanges /\ Stored \subseteq Stored'
    BY <1>1, NoRowChanges, SeenGrows DEF Arrives, Retries, tables
  <2>2. \/ \E place \in {"claiming", "recording"} : Starts(p, m, "webhook", place)
        \/ Starts(p, m, "retry", "marking")
    BY <1>1 DEF Arrives, Retries
  <2>3. /\ At(p, "rest") /\ \A q \in Requests \ {p} : proc'[q] = proc[q]
        /\ Mail(p)' = m /\ proc'[p].row = held[m].rid
        /\ \/ proc'[p].at \in {"claiming", "recording"} /\ proc'[p].by = "webhook"
           \/ proc'[p].at = "marking" /\ proc'[p].by = "retry"
    <3>1. /\ DOMAIN proc = Requests
          /\ {"at", "by", "mail", "row"} \subseteq DOMAIN Idle
      BY DEF TypeInv, ProcType, Idle
    <3>2. ASSUME NEW by, NEW place, Starts(p, m, by, place)
          PROVE  /\ At(p, "rest") /\ \A q \in Requests \ {p} : proc'[q] = proc[q]
                 /\ proc'[p].mail = m /\ proc'[p].row = held[m].rid
                 /\ proc'[p].at = place /\ proc'[p].by = by
      BY <3>1, <3>2 DEF Starts
    <3> QED BY <2>2, <3>2 DEF Mail
  <2>4. Begins(p) /\ ~ Holds(p)
    BY <2>1, <2>3 DEF Begins, HalfWay, Routed, Holds, At
  <2> QED BY <2>1, <2>3, <2>4, OthersGoOn DEF Ordinary
<1>2. CASE Crash
  <2>1. RowChanges /\ Stored \subseteq Stored' /\ UNCHANGED landed
    BY <1>2, NoRowChanges, SeenGrows DEF Crash, tables
  <2>2. \A q \in Requests : At(q, "rest")'
    BY <1>2, IdleIsThread DEF Crash, At
  <2>3. \A q \in Requests : Holds(q) => Mail(q) \in torn'
    BY <1>2 DEF Crash, Holds
  <2> QED BY <1>2, <2>1, <2>2, <2>3 DEF Ordinary, Crash
<1>3. CASE BoardStep \/ BoardFails \/ Deploys \/ Tick \/ \E d \in DealIds : Closes(d)
  <2>1. /\ UNCHANGED <<held, seen, proc, torn>> /\ landed \subseteq landed'
    BY <1>3 DEF BoardStep, BoardLoads, BoardPicks, BoardLands, BoardFails, Deploys, Tick,
                Closes, tables, ghosts
  <2>2. RowChanges /\ Stored \subseteq Stored'
    BY <2>1, NoRowChanges, SeenGrows
  <2> QED BY <2>1, <2>2, OthersGoOn DEF Ordinary
<1> QED BY <1>1, <1>2, <1>3

\* The statement that claims a row, the one that hands it back, a dismissal:
\* one row changes its status, and keeps its id.
LEMMA RowIsStable ==
    ASSUME TypeInv, NEW n \in Mails, held[n].status # "none",
           /\ \A m \in Mails \ {n} : held'[m] = held[m]
           /\ held'[n].status # "none" /\ held'[n].rid = held[n].rid
    PROVE  \A q \in Requests : Mail(q) \in Mails /\ proc'[q] = proc[q] =>
               (Holds(q)' <=> Holds(q)) /\ Mail(q)' = Mail(q)
<1> SUFFICES ASSUME NEW q \in Requests, Mail(q) \in Mails, proc'[q] = proc[q]
             PROVE  (Holds(q)' <=> Holds(q)) /\ Mail(q)' = Mail(q)
  OBVIOUS
<1>1. Mail(q)' = Mail(q) /\ (HalfWay(q)' <=> HalfWay(q))
  BY DEF Mail, HalfWay
<1>2. /\ held'[Mail(q)].rid = held[Mail(q)].rid
      /\ held'[Mail(q)].status = "none" <=> held[Mail(q)].status = "none"
  OBVIOUS
<1>3. RowIs(q)' <=> RowIs(q)
  BY <1>1, <1>2 DEF RowIs, Rows
<1> QED BY <1>1, <1>3 DEF Holds

LEMMA ClaimSucceeds ==
    ASSUME TypeInv, ClaimInv, RecoveredInv, NEW p \in Requests, Marks(p)
    PROVE  \/ Ordinary
           \/ /\ ClaimInv' /\ RecoveredInv'
              /\ \A m \in Mails : held[m].status = Dismissed => held'[m].status = Dismissed
              /\ Rows(held) \subseteq Rows(held)'
<1>1. /\ held \in [Mails -> Row] /\ proc[p].at = "marking" /\ Mail(p) \in Mails
      /\ proc \in [Requests -> Thread] /\ proc[p].by = "retry" /\ ~ At(p, "rest")
      /\ \A q \in Requests : ~ At(q, "rest") => Mail(q) \in Mails
      /\ UNCHANGED <<seen, landed, torn>>
  BY DEF TypeInv, ProcType, Marks, At, ClaimInv, Routed, ghosts
<1>2. Stored \subseteq Stored'
  BY <1>1 DEF Stored
<1>3. CASE Rests(p) /\ UNCHANGED held
  <2>1. /\ \A q \in Requests \ {p} : proc'[q] = proc[q]
        /\ At(p, "rest")' /\ ~ Holds(p)
    BY <1>1, <1>3, IdleIsThread DEF Rests, At, Holds, HalfWay
  <2>2. RowChanges
    BY <1>3, NoRowChanges
  <2> QED BY <1>1, <1>2, <2>1, <2>2, OthersGoOn DEF Ordinary
<1>4. CASE /\ RowIs(p) /\ held[Mail(p)].status = Open
           /\ held' = [held EXCEPT ![Mail(p)].status = Recovered]
           /\ Goes(p, "looking")
  <2> DEFINE n == Mail(p)
  <2>1. /\ held' \in [Mails -> Row]
        /\ \A m \in Mails \ {n} : held'[m] = held[m]
        /\ held'[n].status = Recovered /\ held'[n].rid = held[n].rid
        /\ held[n].status = Open
    BY <1>1, <1>4, StatusIsTyped
  <2>2. /\ \A q \in Requests \ {p} : proc'[q] = proc[q]
        /\ proc'[p].at = "looking" /\ proc'[p].by = "retry" /\ Mail(p)' = n
        /\ proc'[p].row = proc[p].row
    BY <1>1, <1>4 DEF Goes, Mail, Thread
  <2>3. n \in Mails /\ proc[p].row = held[n].rid
    BY <1>1, <1>4 DEF RowIs
  <2> HIDE DEF n
  <2>4. Holds(p)' /\ ~ Holds(p)
    BY <1>1, <2>1, <2>2, <2>3 DEF Holds, HalfWay, RowIs, Rows, Open, Recovered
  <2>5. ASSUME NEW q \in Requests \ {p}
        PROVE  /\ Holds(q)' <=> Holds(q)
               /\ Mail(q)' = Mail(q)
               /\ Holds(q) => Mail(q) \in Mails \ {n}
    <3>1. Holds(q) \/ Holds(q)' => Mail(q) \in Mails
      BY <1>1, <2>2 DEF Holds, HalfWay, At
    <3>2. Mail(q) \in Mails => (Holds(q)' <=> Holds(q))
      BY <2>1, <2>2, <2>3, RowIsStable DEF Open, Recovered
    <3>3. Holds(q) => held[Mail(q)].status = Recovered
      BY DEF ClaimInv
    <3> QED BY <2>1, <2>2, <3>1, <3>2, <3>3 DEF Mail, Open, Recovered
  <2>6. ClaimInv'
    <3>1. ASSUME NEW q \in Requests
          PROVE  /\ Routed(q)'
                 /\ ~ At(q, "rest")' => proc'[q].row <= held'[Mail(q)'].rid
                 /\ Holds(q)' => held'[Mail(q)'].status = Recovered
      <4>1. CASE q = p
        BY <2>1, <2>2, <2>3, <4>1 DEF Routed, Row
      <4>2. CASE q # p
        <5>1. proc'[q] = proc[q] /\ Mail(q)' = Mail(q)
          BY <2>2, <4>2 DEF Mail
        <5>2. ~ At(q, "rest") => held'[Mail(q)].rid = held[Mail(q)].rid
          BY <1>1, <2>1
        <5> QED BY <2>1, <2>5, <4>2, <5>1, <5>2 DEF ClaimInv, Routed, At
      <4> QED BY <4>1, <4>2
    <3>2. ASSUME NEW q \in Requests, NEW r \in Requests,
                 Holds(q)', Holds(r)', Mail(q)' = Mail(r)'
          PROVE  q = r
      BY <2>2, <2>5, <3>2 DEF ClaimInv
    <3> QED BY <3>1, <3>2 DEF ClaimInv
  <2>7. RecoveredInv'
    <3> SUFFICES ASSUME NEW m \in Mails, held'[m].status = Recovered
                 PROVE  \/ m \in torn'
                        \/ m.says \in landed' \/ AlreadySeen(m)'
                        \/ \E q \in Requests : Holds(q)' /\ Mail(q)' = m
      BY DEF RecoveredInv
    <3>1. CASE m = n
      BY <2>2, <2>4, <3>1
    <3>2. CASE m # n
      <4>1. held[m].status = Recovered
        BY <2>1, <3>2
      <4>2. \A q \in Requests : Holds(q) => Holds(q)' /\ Mail(q)' = Mail(q)
        BY <2>4, <2>5
      <4> QED BY <1>1, <1>2, <4>1, <4>2, SeenStays DEF RecoveredInv
    <3> QED BY <3>1, <3>2
  <2>8. /\ \A m \in Mails : held[m].status = Dismissed => held'[m].status = Dismissed
        /\ Rows(held) \subseteq Rows(held)'
    BY <2>1 DEF Rows, Open, Dismissed, Recovered
  <2> QED BY <2>6, <2>7, <2>8
<1> QED BY <1>3, <1>4 DEF Marks

LEMMA HandsBack ==
    ASSUME TypeInv, ClaimInv, RecoveredInv, NEW p \in Requests, Reopens(p)
    PROVE  \/ Ordinary
           \/ /\ ClaimInv' /\ RecoveredInv'
              /\ \A m \in Mails : held[m].status = Dismissed => held'[m].status = Dismissed
              /\ Rows(held) \subseteq Rows(held)'
<1> DEFINE n == Mail(p)
<1>1. /\ held \in [Mails -> Row] /\ proc[p].at = "reopening" /\ n \in Mails
      /\ proc \in [Requests -> Thread] /\ ~ At(p, "rest")
      /\ \A q \in Requests : ~ At(q, "rest") => Mail(q) \in Mails
      /\ UNCHANGED <<seen, landed, torn>>
      /\ held' = [held EXCEPT ![n].status = IF RowIs(p) THEN Open ELSE @]
  BY DEF TypeInv, ProcType, Reopens, At, ghosts
<1>2. Stored \subseteq Stored'
  BY <1>1 DEF Stored
<1>3. \A q \in Requests \ {p} : proc'[q] = proc[q]
  BY <1>1 DEF Reopens, Rests
<1>4. At(p, "rest")' /\ ~ Holds(p)'
  BY <1>1, IdleIsThread DEF Reopens, Rests, At, Holds, HalfWay
<1>5. CASE ~ RowIs(p)
  <2>1. held' = [held EXCEPT ![n].status = held[n].status]
    BY <1>1, <1>5
  <2>2. held[n].status \in {"none", Open, Recovered, Dismissed}
    BY <1>1 DEF Row
  <2> HIDE DEF n
  <2>3. RowChanges
    BY <1>1, <2>1, <2>2, StatusIsTyped DEF RowChanges, RowKept
  <2>4. ~ Holds(p)
    BY <1>5 DEF Holds
  <2> QED BY <1>1, <1>2, <1>3, <1>4, <2>3, <2>4, OthersGoOn DEF Ordinary
<1>6. CASE RowIs(p)
  <2>1. Holds(p) /\ held[n].status = Recovered
    BY <1>1, <1>6 DEF Holds, HalfWay, ClaimInv, Routed
  <2> HIDE DEF n
  <2>2. /\ held' \in [Mails -> Row]
        /\ \A m \in Mails \ {n} : held'[m] = held[m]
        /\ held'[n].status = Open /\ held'[n].rid = held[n].rid
    BY <1>1, <1>6, StatusIsTyped
  <2>3. ASSUME NEW q \in Requests \ {p}
        PROVE  /\ Holds(q)' <=> Holds(q)
               /\ Mail(q)' = Mail(q)
               /\ Holds(q) => Mail(q) \in Mails \ {n}
    <3>1. Holds(q) \/ Holds(q)' => Mail(q) \in Mails
      BY <1>1, <1>3 DEF Holds, HalfWay, At
    <3>2. Mail(q) \in Mails => (Holds(q)' <=> Holds(q))
      BY <1>1, <1>3, <2>1, <2>2, RowIsStable DEF Open, Recovered
    <3>3. Holds(q) => Mail(q) # n
      BY <2>1 DEF ClaimInv, n
    <3> QED BY <1>3, <3>1, <3>2, <3>3 DEF Mail
  <2>4. ClaimInv'
    <3>1. ASSUME NEW q \in Requests
          PROVE  /\ Routed(q)'
                 /\ ~ At(q, "rest")' => proc'[q].row <= held'[Mail(q)'].rid
                 /\ Holds(q)' => held'[Mail(q)'].status = Recovered
      <4>1. CASE q = p
        BY <1>4, <4>1 DEF Routed, At
      <4>2. CASE q # p
        <5>1. proc'[q] = proc[q] /\ Mail(q)' = Mail(q)
          BY <1>3, <4>2 DEF Mail
        <5>2. ~ At(q, "rest") => held'[Mail(q)].rid = held[Mail(q)].rid
          BY <1>1, <2>2
        <5> QED BY <2>2, <2>3, <4>2, <5>1, <5>2 DEF ClaimInv, Routed, At
      <4> QED BY <4>1, <4>2
    <3>2. ASSUME NEW q \in Requests, NEW r \in Requests,
                 Holds(q)', Holds(r)', Mail(q)' = Mail(r)'
          PROVE  q = r
      BY <1>4, <2>3, <3>2 DEF ClaimInv
    <3> QED BY <3>1, <3>2 DEF ClaimInv
  <2>5. RecoveredInv'
    <3> SUFFICES ASSUME NEW m \in Mails, held'[m].status = Recovered
                 PROVE  \/ m \in torn'
                        \/ m.says \in landed' \/ AlreadySeen(m)'
                        \/ \E q \in Requests : Holds(q)' /\ Mail(q)' = m
      BY DEF RecoveredInv
    <3>1. m # n /\ held[m].status = Recovered
      BY <2>2 DEF Open, Recovered
    <3>2. \A q \in Requests : Holds(q) /\ Mail(q) = m => Holds(q)' /\ Mail(q)' = Mail(q)
      BY <2>3, <3>1 DEF n
    <3> QED BY <1>1, <1>2, <3>1, <3>2, SeenStays DEF RecoveredInv
  <2>6. /\ \A m \in Mails : held[m].status = Dismissed => held'[m].status = Dismissed
        /\ Rows(held) \subseteq Rows(held)'
    BY <2>1, <2>2 DEF Rows, Open, Dismissed, Recovered
  <2> QED BY <2>4, <2>5, <2>6
<1> QED BY <1>5, <1>6

LEMMA DismissalIsFinal ==
    ASSUME TypeInv, ClaimInv, RecoveredInv, NEW n \in Mails, Dismisses(n)
    PROVE  /\ ClaimInv' /\ RecoveredInv'
           /\ \A m \in Mails : held[m].status = Dismissed => held'[m].status = Dismissed
           /\ Rows(held) \subseteq Rows(held)'
<1>1. /\ held \in [Mails -> Row] /\ held[n].status = Open
      /\ \A q \in Requests : ~ At(q, "rest") => Mail(q) \in Mails
      /\ UNCHANGED <<seen, landed, torn, proc>>
      /\ held' = [held EXCEPT ![n].status = Dismissed]
  BY DEF TypeInv, ProcType, Dismisses, ghosts
<1>2. Stored \subseteq Stored'
  BY <1>1 DEF Stored
<1>3. /\ held' \in [Mails -> Row]
      /\ \A m \in Mails \ {n} : held'[m] = held[m]
      /\ held'[n].status = Dismissed /\ held'[n].rid = held[n].rid
  BY <1>1, StatusIsTyped
<1>4. ASSUME NEW q \in Requests
      PROVE  /\ Holds(q)' <=> Holds(q)
             /\ Mail(q)' = Mail(q)
             /\ Holds(q) => Mail(q) \in Mails \ {n}
  <2>1. Holds(q) \/ Holds(q)' => Mail(q) \in Mails
    BY <1>1 DEF Holds, HalfWay, At
  <2>2. Mail(q) \in Mails => (Holds(q)' <=> Holds(q))
    BY <1>1, <1>3, RowIsStable DEF Open, Dismissed
  <2>3. Holds(q) => Mail(q) # n
    BY <1>1 DEF ClaimInv, Open, Recovered
  <2> QED BY <1>1, <2>1, <2>2, <2>3 DEF Mail
<1>5. ClaimInv'
  <2>1. ASSUME NEW q \in Requests
        PROVE  /\ Routed(q)'
               /\ ~ At(q, "rest")' => proc'[q].row <= held'[Mail(q)'].rid
               /\ Holds(q)' => held'[Mail(q)'].status = Recovered
    <3>1. ~ At(q, "rest") => held'[Mail(q)].rid = held[Mail(q)].rid
      BY <1>1, <1>3
    <3> QED BY <1>1, <1>3, <1>4, <3>1 DEF ClaimInv, Routed, At
  <2> QED BY <1>4, <2>1 DEF ClaimInv
<1>6. RecoveredInv'
  <2> SUFFICES ASSUME NEW m \in Mails, held'[m].status = Recovered
               PROVE  \/ m \in torn'
                      \/ m.says \in landed' \/ AlreadySeen(m)'
                      \/ \E q \in Requests : Holds(q)' /\ Mail(q)' = m
    BY DEF RecoveredInv
  <2>1. held[m].status = Recovered
    BY <1>3 DEF Dismissed, Recovered
  <2> QED BY <1>1, <1>2, <1>4, <2>1, SeenStays DEF RecoveredInv
<1>7. /\ \A m \in Mails : held[m].status = Dismissed => held'[m].status = Dismissed
      /\ Rows(held) \subseteq Rows(held)'
  BY <1>1, <1>3 DEF Rows, Open, Dismissed
<1> QED BY <1>5, <1>6, <1>7

-----------------------------------------------------------------------------
(* Theorems about the reject queue.                                        *)

Inv == TypeInv /\ ClaimInv /\ RecoveredInv

LEMMA NextKeepsRows ==
    ASSUME Inv, Next
    PROVE  \/ Ordinary
           \/ /\ ClaimInv' /\ RecoveredInv'
              /\ \A m \in Mails : held[m].status = Dismissed => held'[m].status = Dismissed
              /\ Rows(held) \subseteq Rows(held)'
BY RequestIsOrdinary, WorldIsOrdinary, ClaimSucceeds, HandsBack, DismissalIsFinal
   DEF Inv, Next, RequestStep

LEMMA InvHolds == Spec => []Inv
<1>1. Init => ClaimInv /\ RecoveredInv
  BY IdleIsThread
     DEF Init, ClaimInv, RecoveredInv, Routed, Holds, HalfWay, At, NoRow, Recovered
<1>2. TypeInv /\ TypeInv' /\ ClaimInv /\ RecoveredInv /\ [Next]_vars
         => ClaimInv' /\ RecoveredInv'
  <2> SUFFICES ASSUME TypeInv, TypeInv', ClaimInv, RecoveredInv, [Next]_vars
               PROVE  ClaimInv' /\ RecoveredInv'
    OBVIOUS
  <2>1. CASE UNCHANGED vars
    BY <2>1 DEF vars, tables, ghosts, ClaimInv, RecoveredInv, Routed, Holds, HalfWay,
                RowIs, Rows, At, Mail, AlreadySeen, Stored, SameMessage
  <2>2. CASE Next
    BY <2>2, NextKeepsRows, OrdinaryKeepsClaims, OrdinaryKeepsRecovered DEF Inv
  <2> QED BY <2>1, <2>2
<1> QED BY <1>1, <1>2, TypeInvHolds, PTL DEF Spec, Inv

\* A mail the queue calls recovered has reached the board or is stored for the
\* backfill, whatever raced, failed, was shed or came back, unless the process
\* died between claiming the row and the board.
THEOREM RecoveredMailIsKept == Spec => []RecoveredIsKept
<1>1. Inv => RecoveredIsKept
  BY DEF Inv, RecoveredInv, RecoveredIsKept, Holds
<1> QED BY <1>1, InvHolds, PTL

\* No replay, failed retry or reopening brings back what the operator has
\* dismissed: a thread that hands a row back still holds it.
THEOREM DismissalsStay == Spec => DismissedStays
<1>1. Inv /\ [Next]_vars
         => [\A m \in Mails : held[m].status = Dismissed
                => held'[m].status \in {"none", Dismissed}]_vars
  <2> SUFFICES ASSUME Inv, Next, NEW m \in Mails, held[m].status = Dismissed
               PROVE  held'[m].status \in {"none", Dismissed}
    OBVIOUS
  <2>1. CASE Ordinary
    BY <2>1 DEF Ordinary, RowChanges, RowKept, RowGone, RowOpened, Dismissed
  <2> QED BY <2>1, NextKeepsRows
<1> QED BY <1>1, InvHolds, PTL DEF Spec, DismissedStays

-----------------------------------------------------------------------------
(* What _prune may shed.                                                   *)

CodeOf(m) == IF m.known THEN "unparsed" ELSE "sender_not_allowed"

\* Why a mail was held never changes.
CodeInv == \A m \in Rows(held) : held[m].code = CodeOf(m)

\* Only a record sheds rows, and only what _prune calls sheddable.
LEMMA RecordSheds ==
    ASSUME TypeInv, CodeInv, NEW p \in Requests, Records(p)
    PROVE  /\ CodeInv'
           /\ \A m \in Rows(held) \ Rows(held)' :
                  held[m].status # Open \/ held[m].code # "unparsed"
<1> DEFINE n == Mail(p)
           U == Upsert(n, CodeOf(n))
<1>1. /\ held \in [Mails -> Row] /\ n \in Mails
      /\ \/ UNCHANGED held
         \/ \E S \in Shed(U) : held' = [m \in Mails |-> IF m \in S THEN Absent(U[m]) ELSE U[m]]
  BY DEF TypeInv, ProcType, Records, At, CodeOf
<1>2. /\ U \in [Mails -> Row]
      /\ U[n].code = CodeOf(n)
      /\ \A m \in Mails : m # n => U[m] = held[m]
      /\ U[n].status = held[n].status \/ held[n].status = "none"
  <2>1. CodeOf(n) \in Codes
    BY DEF CodeOf, Codes
  <2> HIDE DEF n
  <2> QED BY <1>1, <2>1, UpsertIsTyped
<1> HIDE DEF n, U
<1>3. CASE UNCHANGED held
  BY <1>3 DEF CodeInv, Rows
<1>4. ASSUME NEW S \in Shed(U),
             held' = [m \in Mails |-> IF m \in S THEN Absent(U[m]) ELSE U[m]]
      PROVE  /\ CodeInv'
             /\ \A m \in Rows(held) \ Rows(held)' :
                    held[m].status # Open \/ held[m].code # "unparsed"
  <2>1. S \subseteq Sheddable(U)
    BY DEF Shed
  <2>2. \A m \in Mails : U[m] \in Row
    BY <1>2
  <2>3. \A m \in Mails : IF m \in S THEN held'[m].status = "none" ELSE held'[m] = U[m]
    BY <1>4, <2>2, AbsentIsTyped
  <2>4. CodeInv'
    BY <1>2, <2>3 DEF CodeInv, Rows
  <2>5. ASSUME NEW m \in Rows(held) \ Rows(held)'
        PROVE  held[m].status # Open \/ held[m].code # "unparsed"
    <3>1. m \in Mails /\ held[m].status # "none" /\ held'[m].status = "none"
      BY DEF Rows
    <3>2. U[m].status = held[m].status /\ U[m].code = held[m].code
      BY <1>2, <3>1 DEF CodeInv, Rows
    <3>3. m \in S
      BY <2>3, <3>1, <3>2
    <3> QED BY <2>1, <3>1, <3>2, <3>3 DEF Sheddable, Evidence
  <2> QED BY <2>4, <2>5
<1> QED BY <1>1, <1>3, <1>4

LEMMA OthersShedNothing ==
    ASSUME Inv, CodeInv, Next, ~ \E p \in Requests : Records(p)
    PROVE  CodeInv' /\ Rows(held) \subseteq Rows(held)'
<1>1. held \in [Mails -> Row] /\ \A q \in Requests : ~ At(q, "rest") => Mail(q) \in Mails
  BY DEF Inv, TypeInv, ProcType
<1>2. CASE UNCHANGED held
  BY <1>2 DEF CodeInv, Rows
<1>3. ASSUME NEW n \in Mails, NEW status \in {"none", Open, Recovered, Dismissed},
             held' = [held EXCEPT ![n].status = status], held[n].status # "none"
      PROVE  CodeInv'
  BY <1>1, <1>3, StatusIsTyped DEF CodeInv, Rows
<1>4. ASSUME NEW p \in Requests, Marks(p) PROVE CodeInv' /\ Rows(held) \subseteq Rows(held)'
  <2>1. Mail(p) \in Mails
    BY <1>1, <1>4 DEF Marks, At
  <2>2. \/ UNCHANGED held
        \/ /\ held' = [held EXCEPT ![Mail(p)].status = Recovered]
           /\ held[Mail(p)].status # "none"
    BY <1>4 DEF Marks, Open
  <2>3. ASSUME held' = [held EXCEPT ![Mail(p)].status = Recovered]
        PROVE  Rows(held) \subseteq Rows(held)'
    BY <1>1, <2>1, <2>3, StatusIsTyped DEF Rows, Recovered
  <2> QED BY <1>2, <1>3, <2>1, <2>2, <2>3
<1>5. ASSUME NEW p \in Requests, Reopens(p) PROVE CodeInv' /\ Rows(held) \subseteq Rows(held)'
  <2>1. Mail(p) \in Mails
    BY <1>1, <1>5 DEF Reopens, At
  <2>2. CASE RowIs(p)
    <3>1. /\ held' = [held EXCEPT ![Mail(p)].status = Open]
          /\ held[Mail(p)].status # "none"
      BY <1>5, <2>2 DEF Reopens, RowIs, Rows
    <3>2. Rows(held) \subseteq Rows(held)'
      BY <1>1, <2>1, <3>1, StatusIsTyped DEF Rows, Open
    <3> QED BY <1>3, <2>1, <3>1, <3>2
  <2>3. CASE ~ RowIs(p)
    <3>1. held' = [held EXCEPT ![Mail(p)].status = held[Mail(p)].status]
      BY <1>5, <2>3 DEF Reopens
    <3>2. held[Mail(p)] \in Row
      BY <1>1, <2>1
    <3>3. held[Mail(p)].status \in {"none", Open, Recovered, Dismissed}
      BY <3>2 DEF Row
    <3>4. /\ \A m \in Mails : held'[m].status = held[m].status
          /\ \A m \in Mails : held'[m].code = held[m].code
      BY <1>1, <2>1, <3>1, <3>3, StatusIsTyped
    <3> QED BY <3>4 DEF CodeInv, Rows
  <2> QED BY <2>2, <2>3
<1>6. ASSUME NEW n \in Mails, Dismisses(n) PROVE CodeInv' /\ Rows(held) \subseteq Rows(held)'
  <2>1. held' = [held EXCEPT ![n].status = Dismissed] /\ held[n].status # "none"
    BY <1>6 DEF Dismisses, Open
  <2>2. Rows(held) \subseteq Rows(held)'
    BY <1>1, <2>1, StatusIsTyped DEF Rows, Dismissed
  <2> QED BY <1>3, <2>1, <2>2
<1>7. ASSUME NEW p \in Requests, RequestStep(p) \/ Fails(p)
      PROVE  UNCHANGED held \/ Marks(p) \/ Reopens(p)
  BY <1>7 DEF RequestStep, Claims, Finds, OnBoard, Remembers, Resolves, Answers, Applies,
              Looks, Fails, tables
<1>8. ASSUME \/ \E p \in Requests, m \in Mails : Arrives(p, m) \/ Retries(p, m)
             \/ \E d \in DealIds : Closes(d)
             \/ BoardStep \/ BoardFails \/ Crash \/ Deploys \/ Tick
      PROVE  UNCHANGED held
  BY <1>8 DEF Arrives, Retries, Closes, BoardStep, BoardLoads, BoardPicks, BoardLands,
              BoardFails, Crash, Deploys, Tick, tables
<1> QED BY <1>2, <1>4, <1>5, <1>6, <1>7, <1>8 DEF Next

LEMMA CodeHolds == Spec => []CodeInv
<1>1. Init => CodeInv
  BY DEF Init, CodeInv, Rows, NoRow
<1>2. Inv /\ CodeInv /\ [Next]_vars => CodeInv'
  <2>1. CASE UNCHANGED vars
    BY <2>1 DEF vars, tables, CodeInv, Rows
  <2> QED BY <2>1, RecordSheds, OthersShedNothing DEF Inv
<1> QED BY <1>1, <1>2, InvHolds, PTL DEF Spec

\* The table's caps never cost a mail nobody could read: what is shed was
\* dismissed, has arrived, or belongs to a retry at work on it or dead.
THEOREM UnreadMailIsKept == Spec => UnreadIsKept
<1>1. Inv /\ CodeInv /\ [Next]_vars
         => [\A m \in Rows(held) \ Rows(held)' :
                \/ held[m].code # "unparsed"
                \/ held[m].status = Dismissed
                \/ m \in torn \/ \E p \in Requests : HalfWay(p) /\ Mail(p) = m
                \/ m.says \in landed \/ AlreadySeen(m)]_vars
  <2> SUFFICES ASSUME Inv, CodeInv, Next, NEW m \in Rows(held) \ Rows(held)',
                      held[m].code = "unparsed", held[m].status # Dismissed
               PROVE  \/ m \in torn \/ \E p \in Requests : HalfWay(p) /\ Mail(p) = m
                      \/ m.says \in landed \/ AlreadySeen(m)
    OBVIOUS
  <2>1. m \in Mails /\ held[m].status \in {Open, Recovered, Dismissed}
    BY DEF Rows, Inv, TypeInv, Row
  <2>2. held[m].status # Open
    BY RecordSheds, OthersShedNothing DEF Inv
  <2> QED BY <2>1, <2>2 DEF Inv, RecoveredInv, Holds
<1> QED BY <1>1, InvHolds, CodeHolds, PTL DEF Spec, UnreadIsKept

-----------------------------------------------------------------------------
(* One answer.  Nobody is at work on a message twice, save where the code  *)
(* accepts it; who is about to answer finds the message unanswered, and    *)
(* leaves behind what the next retry looks at.                             *)

\* Copies of one message are alike to the deduplication: they share a key, and
\* what is a copy of the one is a copy of the other.  (Nothing is asked of
\* different messages: one taken for another's copy is never drafted for.)
CopiesAreAlike ==
    \A m, n \in Mails : m.says = n.says =>
        \A k \in Mails : SameMessage(m, k) <=> SameMessage(n, k)

Works(p)  == ~ At(p, "rest")
HasDeal(m) == m.kind = "lead" => DealOf(m) # {}

\* What a request on the way to an answer knows of its mail.
ThreadInv(p) ==
    /\ proc[p].at \in {"finding", "landing", "remembering", "drafting", "answering"}
           => answers[Mail(p).says] = 0
    /\ proc[p].at \in {"finding", "landing"} /\ ~ proc[p].remember => AlreadySeen(Mail(p))
    /\ proc[p].at \in {"landing", "answering"} /\ Mail(p).kind = "lead"
           => proc[p].target = NoDeal
    /\ proc[p].at = "remembering" => HasDeal(Mail(p))
    /\ proc[p].at \in {"drafting", "answering"} => AlreadySeen(Mail(p)) /\ HasDeal(Mail(p))

\* What an answer leaves behind.
Settled(m) == AlreadySeen(m) /\ HasDeal(m) /\ (m.kind = "lead" => m \in responses)

OneWorks ==
    \A p, q \in Requests :
        Works(p) /\ Works(q) /\ Mail(p).says = Mail(q).says /\ Mail(p).says \notin excused
            => p = q

AnswerInv ==
    /\ answers \in [Messages -> Nat]
    /\ \A s \in Messages \ excused : answers[s] <= 1
    /\ \A m \in Mails : m.says \notin excused /\ answers[m.says] > 0 => Settled(m)
    /\ OneWorks
    /\ \A p \in Requests : Works(p) /\ Mail(p).says \notin excused => ThreadInv(p)

\* Nothing a request has read of the tables becomes false again.
Grows == /\ Stored \subseteq Stored' /\ excused \subseteq excused' /\ responses \subseteq responses'
         /\ \A m \in Mails : DealOf(m) # {} => DealOf(m)' # {}

LEMMA CopiesAgree ==
    ASSUME CopiesAreAlike, NEW m \in Mails, NEW n \in Mails, m.says = n.says
    PROVE  /\ AlreadySeen(m) <=> AlreadySeen(n)
           /\ m.kind = "lead" \/ n.kind = "lead" => m = n
<1>1. \A k \in Mails : SameMessage(m, k) <=> SameMessage(n, k)
  BY DEF CopiesAreAlike
<1>2. SameMessage(m, n) /\ SameMessage(n, m)
  BY <1>1 DEF SameMessage
<1>3. m.kind = "lead" \/ n.kind = "lead" => m = n
  BY <1>2, MailsAssumption DEF SameMessage
<1>4. Stored \subseteq Mails
  BY DEF Stored
<1> QED BY <1>1, <1>3, <1>4 DEF AlreadySeen

LEMMA DealsOnlyGrow ==
    ASSUME TypeInv, [Next]_vars
    PROVE  \A m \in Mails : DealOf(m) # {} => DealOf(m)' # {}
<1>0. DealsType
  BY DEF TypeInv
<1>1. SUFFICES \/ UNCHANGED deals
               \/ \E m \in Mails : Ensures(m)
               \/ \E d \in DealIds, at \in 0 .. MaxTime : RecordsReply(d, at)
               \/ \E d \in DealIds : deals' = [deals EXCEPT ![d].closed = TRUE]
  BY <1>0, DealsAreKept DEF DealOf, ItemsStay
<1>2. ASSUME NEW p \in Requests, OnBoard(p) \/ Applies(p)
      PROVE  (\E m \in Mails : Ensures(m)) \/ \E d \in DealIds, at \in 0 .. MaxTime : RecordsReply(d, at)
  <2>1. Mail(p) \in Mails /\ proc[p].target \in DealIds \cup {NoDeal} /\ now \in 0 .. MaxTime
    BY <1>2, MailsAssumption DEF TypeInv, ProcType, OnBoard, Applies, At
  <2>2. Lands(Mail(p), proc[p].target)
    BY <1>2 DEF OnBoard, Applies
  <2> QED BY <2>1, <2>2 DEF Lands
<1>3. CASE BoardLands
  <2>1. board.mail \in Mails /\ board.target \in DealIds \cup {NoDeal}
    BY <1>3 DEF TypeInv, BoardType, BoardLands
  <2>2. seen[board.mail] \in 0 .. MaxTime
    BY <2>1 DEF TypeInv
  <2> QED BY <1>3, <2>1, <2>2 DEF BoardLands
<1>4. ASSUME NEW p \in Requests,
             \/ Records(p) \/ Claims(p) \/ Finds(p) \/ Remembers(p) \/ Resolves(p)
             \/ Answers(p) \/ Marks(p) \/ Looks(p) \/ Reopens(p) \/ Fails(p)
      PROVE  UNCHANGED deals
  BY <1>4 DEF Records, Claims, Finds, Remembers, Resolves, Answers, Marks, Looks, Reopens,
              Fails, tables
<1>5. ASSUME \/ \E p \in Requests, m \in Mails : Arrives(p, m) \/ Retries(p, m)
             \/ \E m \in Mails : Dismisses(m) \/ BoardPicks(m)
             \/ BoardLoads \/ BoardFails \/ Crash \/ Deploys \/ Tick \/ UNCHANGED vars
      PROVE  UNCHANGED deals
  BY <1>5 DEF Arrives, Retries, Dismisses, BoardPicks, BoardLoads, BoardFails, Crash,
              Deploys, Tick, vars, tables
<1>6. ASSUME NEW d \in DealIds, Closes(d) PROVE deals' = [deals EXCEPT ![d].closed = TRUE]
  BY <1>6 DEF Closes
<1> QED BY <1>2, <1>3, <1>4, <1>5, <1>6 DEF Next, RequestStep, BoardStep

LEMMA StepGrows ==
    ASSUME TypeInv, [Next]_vars
    PROVE  Grows
<1>1. \/ UNCHANGED seen
      \/ \E m \in Mails : seen' = [seen EXCEPT ![m] = now]
  <2>1. ASSUME NEW p \in Requests, Claims(p) \/ Remembers(p)
        PROVE  UNCHANGED seen \/ \E m \in Mails : seen' = [seen EXCEPT ![m] = now]
    BY <2>1 DEF Claims, Remembers, TypeInv, ProcType, At
  <2>2. ASSUME NEW p \in Requests,
               \/ Records(p) \/ Finds(p) \/ OnBoard(p) \/ Resolves(p) \/ Answers(p)
               \/ Applies(p) \/ Marks(p) \/ Looks(p) \/ Reopens(p) \/ Fails(p)
        PROVE  UNCHANGED seen
    BY <2>2 DEF Records, Finds, OnBoard, Resolves, Answers, Applies, Marks, Looks, Reopens,
                Fails, tables
  <2>3. ASSUME \/ \E p \in Requests, m \in Mails : Arrives(p, m) \/ Retries(p, m)
               \/ \E m \in Mails : Dismisses(m)
               \/ \E d \in DealIds : Closes(d)
               \/ BoardStep \/ BoardFails \/ Crash \/ Deploys \/ Tick \/ UNCHANGED vars
        PROVE  UNCHANGED seen
    BY <2>3 DEF Arrives, Retries, Dismisses, Closes, BoardStep, BoardPicks, BoardLoads,
                BoardLands, BoardFails, Crash, Deploys, Tick, vars, tables
  <2> QED BY <2>1, <2>2, <2>3 DEF Next, RequestStep
<1>2. excused \subseteq excused' /\ responses \subseteq responses'
  <2>1. ASSUME NEW p \in Requests, RequestStep(p) \/ Fails(p)
        PROVE  excused \subseteq excused' /\ responses \subseteq responses'
    BY <2>1 DEF RequestStep, Records, Claims, Finds, OnBoard, Remembers, Resolves, Answers,
                Applies, Marks, Looks, Reopens, Fails, tables, ghosts
  <2>2. ASSUME \/ \E p \in Requests, m \in Mails : Arrives(p, m) \/ Retries(p, m)
               \/ \E m \in Mails : Dismisses(m)
               \/ \E d \in DealIds : Closes(d)
               \/ BoardStep \/ BoardFails \/ Crash \/ Deploys \/ Tick \/ UNCHANGED vars
        PROVE  excused \subseteq excused' /\ responses \subseteq responses'
    BY <2>2 DEF Arrives, Retries, Starts, Dismisses, Closes, BoardStep, BoardPicks, BoardLoads,
                BoardLands, BoardFails, Crash, Deploys, Tick, vars, tables, ghosts
  <2> QED BY <2>1, <2>2 DEF Next
<1> QED BY <1>1, <1>2, SeenGrows, DealsOnlyGrow DEF Grows

\* A step that adds no answer, if every request rests or knows what it must.
LEMMA NoAnswerAdded ==
    ASSUME AnswerInv, Grows, UNCHANGED answers,
           \A q \in Requests :
               \/ At(q, "rest")'
               \/ /\ Works(q) /\ Mail(q)' = Mail(q)
                  /\ Mail(q).says \notin excused' => ThreadInv(q)'
    PROVE  AnswerInv'
<1>1. \A m \in Mails : Settled(m) => Settled(m)'
  BY SeenStays DEF Grows, Settled, HasDeal
<1>2. \A m \in Mails : m.says \notin excused' /\ answers'[m.says] > 0 => Settled(m)'
  BY <1>1 DEF AnswerInv, Grows
<1>3. OneWorks'
  BY DEF AnswerInv, OneWorks, Works, Grows
<1>4. \A q \in Requests : Works(q)' /\ Mail(q)'.says \notin excused' => ThreadInv(q)'
  BY DEF Works
<1> QED BY <1>2, <1>3, <1>4 DEF AnswerInv, Grows

\* A request that stands still knows what it knew.
LEMMA ThreadStays ==
    ASSUME TypeInv, AnswerInv, Grows, NEW q \in Requests, proc'[q] = proc[q],
           Works(q) => answers'[Mail(q).says] = answers[Mail(q).says]
    PROVE  \/ At(q, "rest")'
           \/ /\ Works(q) /\ Mail(q)' = Mail(q)
              /\ Mail(q).says \notin excused' => ThreadInv(q)'
<1> SUFFICES ASSUME Works(q), Mail(q).says \notin excused' PROVE ThreadInv(q)'
  BY DEF Works, At, Mail
<1>1. ThreadInv(q) /\ Mail(q)' = Mail(q) /\ Mail(q) \in Mails
  BY DEF AnswerInv, Grows, Mail, TypeInv, ProcType, Works
<1>2. /\ AlreadySeen(Mail(q)) => AlreadySeen(Mail(q))'
      /\ HasDeal(Mail(q)) => HasDeal(Mail(q))'
  BY <1>1, SeenStays DEF Grows, HasDeal
<1> QED BY <1>1, <1>2 DEF ThreadInv

LEMMA ThreadGoesOn ==
    ASSUME TypeInv, NEW p \in Requests, NEW place, Goes(p, place)
    PROVE  /\ proc'[p].at = place /\ Mail(p)' = Mail(p)
           /\ proc'[p].target = proc[p].target /\ proc'[p].remember = proc[p].remember
           /\ \A q \in Requests \ {p} : proc'[q] = proc[q]
<1>1. proc \in [Requests -> Thread] /\ proc[p] \in Thread
  BY DEF TypeInv, ProcType
<1> QED BY <1>1 DEF Goes, Mail, Thread

LEMMA ThreadRests ==
    ASSUME TypeInv, NEW p \in Requests, Rests(p)
    PROVE  At(p, "rest")' /\ \A q \in Requests \ {p} : proc'[q] = proc[q]
BY IdleIsThread DEF TypeInv, ProcType, Rests, At

\* A message that cannot have been answered: what an answer leaves is missing.
LEMMA Unanswered ==
    ASSUME AnswerInv, NEW m \in Mails, m.says \notin excused, ~ Settled(m)
    PROVE  answers[m.says] = 0
<1>1. answers[m.says] \in Nat
  BY DEF AnswerInv, Messages
<1> QED BY <1>1 DEF AnswerInv

LEMMA EnsuresHasDeal ==
    ASSUME TypeInv, NEW m \in Mails, Ensures(m)
    PROVE  DealOf(m)' # {}
<1>1. CASE DealOf(m) # {}
  BY <1>1 DEF Ensures, DealOf, DealIds
<1>2. CASE DealOf(m) = {}
  <2> DEFINE row == [item |-> m, closed |-> FALSE, replied |-> Never]
             n == Len(deals) + 1
  <2>1. row.item = m /\ deals' = Append(deals, row)
    BY <1>2 DEF Ensures
  <2> HIDE DEF row
  <2>2. n \in DOMAIN deals' /\ deals'[n] = row
    BY <2>1 DEF TypeInv, DealsType
  <2> QED BY <2>1, <2>2 DEF DealOf, DealIds
<1> QED BY <1>1, <1>2

LEMMA SeenNow ==
    ASSUME TypeInv, NEW m \in Mails, seen' = [seen EXCEPT ![m] = now]
    PROVE  AlreadySeen(m)'
<1>1. m \in Stored'
  BY DEF TypeInv, Stored, Never
<1> QED BY <1>1 DEF AlreadySeen, SameMessage

\* A request at work keeps what it knows, and learns what its next place asks.
LEMMA ThreadLearns ==
    ASSUME TypeInv, AnswerInv, Grows, NEW p \in Requests,
           \/ Records(p) \/ Claims(p) \/ Finds(p) \/ OnBoard(p) \/ Remembers(p)
           \/ Resolves(p) \/ Applies(p) \/ Marks(p) \/ Looks(p) \/ Reopens(p) \/ Fails(p)
    PROVE  AnswerInv'
<1>1. /\ Works(p) /\ Mail(p) \in Mails /\ UNCHANGED answers
      /\ Mail(p).says \notin excused' => Mail(p).says \notin excused /\ ThreadInv(p)
  <2>1. Works(p) /\ UNCHANGED answers
    BY DEF Records, Claims, Finds, OnBoard, Remembers, Resolves, Applies, Marks, Looks,
           Reopens, Fails, Works, At, tables, ghosts
  <2> QED BY <2>1 DEF AnswerInv, Grows, TypeInv, ProcType, Works
<1>2. PICK m \in Mails : m = Mail(p)
  BY <1>1
<1> DEFINE Learns == /\ Mail(p)' = m
                     /\ m.says \notin excused' => ThreadInv(p)'
<1>3. ASSUME \A q \in Requests \ {p} : proc'[q] = proc[q], At(p, "rest")' \/ Learns
      PROVE  AnswerInv'
  <2>1. \A q \in Requests :
            \/ At(q, "rest")'
            \/ /\ Works(q) /\ Mail(q)' = Mail(q)
               /\ Mail(q).says \notin excused' => ThreadInv(q)'
    BY <1>1, <1>2, <1>3, ThreadStays
  <2> QED BY <1>1, <1>2, <2>1, NoAnswerAdded
<1>4. ASSUME Rests(p) PROVE AnswerInv'
  BY <1>2, <1>3, <1>4, ThreadRests
<1>5. ASSUME NEW place, Goes(p, place),
             place \in {"looking", "reopening"}
      PROVE  AnswerInv'
  <2>1. Learns
    BY <1>2, <1>5, ThreadGoesOn DEF ThreadInv
  <2> QED BY <1>2, <1>3, <1>5, <2>1, ThreadGoesOn
<1>6. AlreadySeen(m) => AlreadySeen(m)'
  BY SeenStays DEF Grows
<1>7. HasDeal(m) => HasDeal(m)'
  BY <1>1, <1>2 DEF Grows, HasDeal
<1>8. CASE Claims(p) /\ ~ Rests(p)
  <2>1. Goes(p, "finding") /\ ~ AlreadySeen(m) /\ seen' = [seen EXCEPT ![m] = now]
    BY <1>2, <1>8 DEF Claims
  <2>2. AlreadySeen(m)'
    BY <1>1, <1>2, <2>1, SeenNow
  <2>3. m.says \notin excused' => answers'[m.says] = 0
    BY <1>1, <1>2, <2>1, Unanswered DEF Settled
  <2>4. Learns
    BY <1>2, <2>1, <2>2, <2>3, ThreadGoesOn DEF ThreadInv
  <2> QED BY <1>2, <1>3, <2>1, <2>4, ThreadGoesOn
<1>9. ASSUME NEW place \in {"landing", "answering"},
             proc' = [proc EXCEPT ![p].at = place, ![p].target = ThreadParent(m)]
      PROVE  /\ proc'[p].at = place /\ Mail(p)' = m /\ proc'[p].remember = proc[p].remember
             /\ m.kind = "lead" => proc'[p].target = NoDeal
             /\ \A q \in Requests \ {p} : proc'[q] = proc[q]
  <2>1. proc \in [Requests -> Thread] /\ proc[p] \in Thread
    BY DEF TypeInv, ProcType
  <2>2. m.kind = "lead" => ThreadParent(m) = NoDeal
    BY DEF ThreadParent
  <2> DEFINE d == ThreadParent(m)
  <2> HIDE DEF d
  <2>3. proc' = [proc EXCEPT ![p].at = place, ![p].target = d]
    BY <1>2, <1>9 DEF d
  <2>4. proc'[p].target = d /\ proc'[p].at = place /\ proc'[p].remember = proc[p].remember
    BY <1>2, <2>1, <2>3 DEF Thread
  <2>5. Mail(p)' = m /\ \A q \in Requests \ {p} : proc'[q] = proc[q]
    BY <1>2, <2>1, <2>3 DEF Thread, Mail
  <2> QED BY <1>2, <2>2, <2>4, <2>5 DEF d
<1>10. CASE Finds(p)
  <2>1. /\ proc' = [proc EXCEPT ![p].at = "landing", ![p].target = ThreadParent(m)]
        /\ proc[p].at = "finding"
    BY <1>2, <1>10 DEF Finds, At
  <2>2. Learns
    BY <1>1, <1>2, <1>6, <1>9, <2>1 DEF ThreadInv
  <2> QED BY <1>2, <1>3, <1>9, <2>1, <2>2
<1>11. CASE OnBoard(p)
  <2>1. /\ proc[p].at = "landing" /\ Lands(m, proc[p].target)
        /\ Goes(p, IF proc[p].remember THEN "remembering" ELSE "drafting")
    BY <1>2, <1>11 DEF OnBoard, At
  <2>2. m.says \notin excused' => HasDeal(m)'
    BY <1>1, <1>2, <2>1, EnsuresHasDeal DEF ThreadInv, Lands, HasDeal
  <2>3. Learns
    <3>1. CASE proc[p].remember
      BY <1>1, <1>2, <2>1, <2>2, <3>1, ThreadGoesOn DEF ThreadInv
    <3>2. CASE ~ proc[p].remember
      BY <1>1, <1>2, <1>6, <2>1, <2>2, <3>2, ThreadGoesOn DEF ThreadInv
    <3> QED BY <1>2, <3>1, <3>2
  <2> QED BY <1>2, <1>3, <2>1, <2>3, ThreadGoesOn
<1>12. CASE Remembers(p)
  <2>1. proc[p].at = "remembering" /\ Goes(p, "drafting")
    BY <1>2, <1>12 DEF Remembers, At
  <2>2. AlreadySeen(m)'
    BY <1>1, <1>2, <1>6, <1>12, SeenNow DEF Remembers
  <2>3. Learns
    BY <1>1, <1>2, <1>7, <2>1, <2>2, ThreadGoesOn DEF ThreadInv
  <2> QED BY <1>2, <1>3, <2>1, <2>3, ThreadGoesOn
<1>13. CASE Resolves(p)
  <2>1. /\ proc' = [proc EXCEPT ![p].at = "answering", ![p].target = ThreadParent(m)]
        /\ proc[p].at = "drafting"
    BY <1>2, <1>13 DEF Resolves, At
  <2>2. Learns
    BY <1>1, <1>2, <1>6, <1>7, <1>9, <2>1 DEF ThreadInv
  <2> QED BY <1>2, <1>3, <1>9, <2>1, <2>2
<1>14. CASE Looks(p) /\ AlreadySeen(m) /\ Applied(m) /\ ~ AlreadyAnswered(m)
  <2>1. Goes(p, "drafting")
    BY <1>2, <1>14 DEF Looks
  <2>2. HasDeal(m) /\ ~ Settled(m)
    BY <1>1, <1>2, <1>14, MailsAssumption DEF Applied, AlreadyAnswered, HasDeal, Settled
  <2>3. m.says \notin excused' => answers'[m.says] = 0
    BY <1>1, <1>2, <2>2, Unanswered
  <2>4. Learns
    BY <1>2, <1>6, <1>7, <1>14, <2>1, <2>2, <2>3, ThreadGoesOn DEF ThreadInv
  <2> QED BY <1>2, <1>3, <2>1, <2>4, ThreadGoesOn
<1>15. CASE Looks(p) /\ ~ (AlreadySeen(m) /\ Applied(m))
  <2> DEFINE b == ~ AlreadySeen(m)
  <2>1. proc' = [proc EXCEPT ![p].at = "finding", ![p].remember = b]
    BY <1>2, <1>15 DEF Looks
  <2>2. m.says \notin excused' => answers'[m.says] = 0
    BY <1>1, <1>2, <1>15, Unanswered, MailsAssumption DEF Settled, Applied, HasDeal
  <2>3. ~ b => AlreadySeen(m)
    OBVIOUS
  <2> HIDE DEF b
  <2>4. proc \in [Requests -> Thread] /\ proc[p] \in Thread
    BY DEF TypeInv, ProcType
  <2>5. /\ proc'[p].at = "finding" /\ proc'[p].remember = b /\ Mail(p)' = m
        /\ \A q \in Requests \ {p} : proc'[q] = proc[q]
    BY <1>2, <2>1, <2>4 DEF Thread, Mail
  <2>6. Learns
    BY <1>2, <1>6, <2>2, <2>3, <2>5 DEF ThreadInv
  <2> QED BY <1>2, <1>3, <2>5, <2>6
<1>16. CASE Fails(p) /\ ~ Rests(p)
  <2>1. CASE At(p, "remembering")
    <3>1. Goes(p, "drafting") /\ m.says \in excused'
      BY <1>2, <1>16, <2>1 DEF Fails, AfterFailure
    <3> QED BY <1>2, <1>3, <3>1, ThreadGoesOn
  <2>2. CASE ~ At(p, "remembering")
    <3>1. Goes(p, "reopening")
      BY <1>2, <1>16, <2>2 DEF Fails, AfterFailure
    <3> QED BY <1>2, <1>5, <3>1
  <2> QED BY <1>2, <2>1, <2>2
<1>17. CASE Looks(p) /\ AlreadySeen(m) /\ Applied(m) /\ AlreadyAnswered(m)
  BY <1>2, <1>4, <1>17 DEF Looks
<1>18. CASE Records(p) \/ Applies(p) \/ Marks(p) \/ Reopens(p)
  BY <1>2, <1>4, <1>5, <1>18 DEF Records, Applies, Marks, Reopens
<1> QED BY <1>2, <1>4, <1>8, <1>10, <1>11, <1>12, <1>13, <1>14, <1>15, <1>16, <1>17, <1>18

\* The answer itself.
LEMMA AnswersOnce ==
    ASSUME CopiesAreAlike, TypeInv, AnswerInv, Grows, NEW p \in Requests, Answers(p)
    PROVE  AnswerInv'
<1> DEFINE m == Mail(p)
           s == m.says
<1>1. /\ proc[p].at = "answering" /\ Works(p) /\ m \in Mails /\ s \in Messages
      /\ answers' = [answers EXCEPT ![s] = @ + 1]
      /\ UNCHANGED <<excused, seen, deals>> /\ Goes(p, "applying")
      /\ responses' = responses \cup {IF proc[p].target = NoDeal THEN m ELSE deals[proc[p].target].item}
  BY DEF Answers, At, Works, TypeInv, ProcType, Messages
<1>2. s \notin excused => ThreadInv(p) /\ answers[s] = 0
  BY <1>1 DEF AnswerInv, ThreadInv
<1>3. /\ answers' \in [Messages -> Nat]
      /\ \A t \in Messages \ {s} : answers'[t] = answers[t]
      /\ s \notin excused => answers'[s] = 1
  BY <1>1, <1>2 DEF AnswerInv
<1>4. proc'[p].at = "applying" /\ Mail(p)' = m /\ \A q \in Requests \ {p} : proc'[q] = proc[q]
  BY <1>1, ThreadGoesOn
<1>5. ASSUME NEW n \in Mails, n.says \notin excused', answers'[n.says] > 0
      PROVE  Settled(n)'
  <2>1. CASE n.says = s
    <3>1. AlreadySeen(m) /\ HasDeal(m) /\ (m.kind = "lead" => proc[p].target = NoDeal)
      BY <1>1, <1>2, <1>5, <2>1 DEF ThreadInv
    <3>2. AlreadySeen(n) /\ (n.kind = "lead" => n = m)
      BY <1>1, <2>1, <3>1, CopiesAgree
    <3>3. AlreadySeen(n)' /\ HasDeal(n)'
      BY <3>1, <3>2, SeenStays DEF Grows, HasDeal
    <3>4. n.kind = "lead" => n \in responses'
      BY <1>1, <3>1, <3>2
    <3> QED BY <3>3, <3>4 DEF Settled
  <2>2. CASE n.says # s
    <3>1. n.says \in Messages
      BY DEF Messages
    <3>2. Settled(n)
      BY <1>1, <1>3, <1>5, <2>2, <3>1 DEF AnswerInv
    <3> QED BY <3>2, SeenStays DEF Grows, Settled, HasDeal
  <2> QED BY <2>1, <2>2
<1>6. ASSUME NEW q \in Requests, Works(q)', Mail(q)'.says \notin excused'
      PROVE  ThreadInv(q)' /\ Works(q) /\ Mail(q)' = Mail(q)
  <2>1. CASE q = p
    BY <1>1, <1>4, <2>1 DEF ThreadInv
  <2>2. CASE q # p
    <3>1. proc'[q] = proc[q] /\ Works(q) /\ Mail(q)' = Mail(q) /\ Mail(q) \in Mails
      BY <1>4, <1>6, <2>2 DEF Works, At, Mail, TypeInv, ProcType
    <3>2. Mail(q).says # s
      BY <1>1, <1>6, <2>2, <3>1 DEF AnswerInv, OneWorks
    <3>3. answers'[Mail(q).says] = answers[Mail(q).says]
      BY <1>3, <3>1, <3>2 DEF Messages
    <3> QED BY <1>6, <3>1, <3>3, ThreadStays DEF Works
  <2> QED BY <2>1, <2>2
<1>7. OneWorks'
  <2> SUFFICES ASSUME NEW q \in Requests, NEW r \in Requests, Works(q)', Works(r)',
                      Mail(q)'.says = Mail(r)'.says, Mail(q)'.says \notin excused'
               PROVE  q = r
    BY DEF OneWorks
  <2> QED BY <1>1, <1>6 DEF AnswerInv, OneWorks
<1>8. \A t \in Messages \ excused' : answers'[t] <= 1
  BY <1>1, <1>3 DEF AnswerInv
<1> QED BY <1>3, <1>5, <1>6, <1>7, <1>8 DEF AnswerInv

\* A second request for a message at work excuses the message.
LEMMA StartsAreSingle ==
    ASSUME TypeInv, AnswerInv, Grows, UNCHANGED answers, NEW p \in Requests, NEW m \in Mails,
           NEW by, NEW place \in {"claiming", "recording", "marking"}, Starts(p, m, by, place)
    PROVE  AnswerInv'
<1>1. /\ At(p, "rest") /\ proc'[p].at = place /\ Mail(p)' = m
      /\ \A q \in Requests \ {p} : proc'[q] = proc[q]
  BY DEF Starts, TypeInv, ProcType, Mail, Idle
<1>2. m.says \notin excused' => \A q \in Requests : Works(q) => Mail(q).says # m.says
  BY DEF Starts, Busy, Works
<1>3. \A n \in Mails : Settled(n) => Settled(n)'
  BY SeenStays DEF Grows, Settled, HasDeal
<1>4. \A n \in Mails : n.says \notin excused' /\ answers'[n.says] > 0 => Settled(n)'
  BY <1>3 DEF AnswerInv, Grows
<1>5. ASSUME NEW q \in Requests \ {p}
      PROVE  /\ Works(q)' => Works(q) /\ Mail(q)' = Mail(q)
             /\ Works(q)' /\ Mail(q)'.says \notin excused' => ThreadInv(q)'
  BY <1>1, ThreadStays DEF Works, At, Mail
<1>6. ThreadInv(p)'
  BY <1>1 DEF ThreadInv
<1>7. OneWorks'
  BY <1>1, <1>2, <1>5 DEF AnswerInv, OneWorks, Grows
<1> QED BY <1>4, <1>5, <1>6, <1>7 DEF AnswerInv, Grows

LEMMA AnswerStep ==
    ASSUME CopiesAreAlike, TypeInv, AnswerInv, [Next]_vars
    PROVE  AnswerInv'
<1>1. Grows
  BY StepGrows
<1>2. ASSUME NEW p \in Requests, NEW m \in Mails, Arrives(p, m) \/ Retries(p, m)
      PROVE  AnswerInv'
  <2>1. /\ UNCHANGED answers
        /\ \E place \in {"claiming", "recording", "marking"}, by \in Routes : Starts(p, m, by, place)
    BY <1>2 DEF Arrives, Retries, Routes
  <2> QED BY <1>1, <2>1, StartsAreSingle
<1>3. CASE \/ \E m \in Mails : Dismisses(m)
           \/ \E d \in DealIds : Closes(d)
           \/ BoardStep \/ BoardFails \/ Deploys \/ Tick \/ UNCHANGED vars
  <2>1. UNCHANGED <<proc, answers>>
    BY <1>3 DEF Dismisses, Closes, BoardStep, BoardPicks, BoardLoads, BoardLands, BoardFails,
                Deploys, Tick, vars, tables, ghosts
  <2> QED BY <1>1, <2>1, ThreadStays, NoAnswerAdded
<1>4. CASE Crash
  <2>1. UNCHANGED answers /\ \A q \in Requests : At(q, "rest")'
    BY <1>4, IdleIsThread DEF Crash, At
  <2> QED BY <1>1, <2>1, NoAnswerAdded
<1>5. ASSUME NEW p \in Requests, RequestStep(p) \/ Fails(p)
      PROVE  AnswerInv'
  BY <1>1, <1>5, ThreadLearns, AnswersOnce DEF RequestStep
<1> QED BY <1>2, <1>3, <1>4, <1>5 DEF Next

\* inbound.py, dashboard.py: however often a message is delivered, replayed,
\* forwarded and retried, and whatever fails, it is drafted for once outside
\* the windows recover's comment accepts, provided its copies are alike to the deduplication.
THEOREM MessagesAnsweredOnce ==
    ASSUME CopiesAreAlike
    PROVE  Spec => []AnsweredOnce
<1>1. Init => AnswerInv
  <2> SUFFICES ASSUME Init PROVE AnswerInv
    OBVIOUS
  <2>1. answers = [s \in Messages |-> 0] /\ \A p \in Requests : ~ Works(p)
    BY IdleIsThread DEF Init, Works, At
  <2> QED BY <2>1 DEF AnswerInv, OneWorks, Messages
<1>2. TypeInv /\ AnswerInv /\ [Next]_vars => AnswerInv'
  BY AnswerStep
<1>3. AnswerInv => AnsweredOnce
  <2> SUFFICES ASSUME AnswerInv, NEW s \in Messages, answers[s] > 1, s \notin excused
               PROVE  FALSE
    BY DEF AnsweredOnce
  <2>1. answers[s] \in Nat /\ answers[s] <= 1
    BY DEF AnswerInv
  <2> QED BY <2>1
<1> QED BY <1>1, <1>2, <1>3, TypeInvHolds, PTL DEF Spec
-----------------------------------------------------------------------------
(* The queue keeps what RejectLife promises.                               *)

\* A retry that ends, but for one that hands its row back or dies, leaves its
\* mail on the board or stored.
LEMMA RetriesEndSafe ==
    ASSUME Inv, Next, ~ Crash, NEW q \in Requests, HalfWay(q), ~ HalfWay(q)', ~ Reopens(q)
    PROVE  Mail(q) \in Safe'
<1>1. /\ ~ At(q, "rest") /\ Mail(q) \in Mails /\ proc \in [Requests -> Thread]
      /\ proc[q].by = "retry" /\ proc[q].at \in {"looking", "finding", "landing", "reopening"}
  BY DEF Inv, TypeInv, ProcType, HalfWay, At
<1>2. proc'[q] # proc[q]
  BY DEF HalfWay
<1>3. ASSUME NEW p \in Requests, RequestStep(p) \/ Fails(p)
      PROVE  p = q
  <2>1. ~ At(p, "rest") /\ TypeInv
    BY <1>3 DEF Inv, RequestStep, Records, Claims, Finds, OnBoard, Remembers, Resolves, Answers,
                Applies, Marks, Looks, Reopens, Fails, At
  <2>2. \E place \in Places :
            \/ Goes(p, place) \/ Rests(p)
            \/ proc' = [proc EXCEPT ![p].at = place, ![p].target = ThreadParent(Mail(p))]
            \/ \E b \in BOOLEAN : proc' = [proc EXCEPT ![p].at = place, ![p].remember = b]
    BY <1>3 DEF RequestStep, Records, Claims, Finds, OnBoard, Remembers, Resolves, Answers,
                Applies, Marks, Looks, Reopens, Fails, AfterFailure, Places
  <2> QED BY <1>2, <2>1, <2>2, OneThreadMoves
<1>4. RequestStep(q) \/ Fails(q)
  <2>1. ASSUME NEW p \in Requests, NEW m \in Mails, Arrives(p, m) \/ Retries(p, m)
        PROVE  proc'[q] = proc[q]
    BY <1>1, <2>1 DEF Arrives, Retries, Starts, At
  <2> QED BY <1>2, <1>3, <2>1
          DEF Next, Dismisses, Closes, BoardStep, BoardLoads, BoardPicks, BoardLands,
              BoardFails, Deploys, Tick
<1>5. CASE Looks(q)
  <2>1. CASE AlreadySeen(Mail(q))
    <3>1. Stored \subseteq Stored'
      BY <1>5 DEF Looks, tables, Stored
    <3> QED BY <1>1, <2>1, <3>1, SeenStays DEF Safe
  <2>2. CASE \E b \in BOOLEAN : proc' = [proc EXCEPT ![q].at = "finding", ![q].remember = b]
    <3>1. HalfWay(q)'
      BY <1>1, <2>2 DEF HalfWay, Thread
    <3> QED BY <3>1
  <2> QED BY <1>5, <2>1, <2>2 DEF Looks
<1>6. CASE OnBoard(q)
  BY <1>1, <1>6 DEF OnBoard, Lands, Safe
<1>7. CASE Finds(q)
  <2>1. HalfWay(q)'
    BY <1>1, <1>7 DEF Finds, HalfWay, Thread
  <2> QED BY <2>1
<1>8. CASE Fails(q)
  <2>1. Goes(q, "reopening")
    BY <1>1, <1>8 DEF Fails, AfterFailure, At
  <2>2. HalfWay(q)'
    BY <1>1, <2>1 DEF Goes, HalfWay, Thread
  <2> QED BY <2>2
<1> QED BY <1>1, <1>4, <1>5, <1>6, <1>7, <1>8
        DEF RequestStep, Records, Claims, Remembers, Resolves, Answers, Applies, Marks, At

\* A mail on its way to the board, and a retry that got it there.
LEMMA OrdinaryBrings ==
    ASSUME Inv, Ordinary, UNCHANGED <<held, torn>>,
           \A q \in Requests : HalfWay(q) /\ ~ HalfWay(q)' => Mail(q) \in Safe'
    PROVE  \E S \in SUBSET Mails, done \in SUBSET AtWork : Life!Bring(S, done)
<1> DEFINE done == AtWork \ AtWork'
<1>1. ASSUME NEW q \in Requests, HalfWay(q)'
      PROVE  HalfWay(q) /\ Mail(q)' = Mail(q) /\ (RowIs(q)' <=> RowIs(q))
  <2>1. Proceeds(q)
    BY <1>1 DEF Ordinary, At, HalfWay, Begins
  <2> QED BY <1>1, <2>1 DEF Proceeds, RowIs, Rows
<1>2. AtWork' = AtWork \ done
  BY <1>1 DEF AtWork, HalfWays
<1>3. Holding' = Holding \ done
  <2>1. ASSUME NEW h \in Holding' PROVE h \in Holding /\ h \in AtWork'
    BY <1>1 DEF Holding, AtWork, HalfWays
  <2>2. ASSUME NEW h \in Holding, h \in AtWork' PROVE h \in Holding'
    <3>1. PICK q \in Requests : HalfWay(q) /\ RowIs(q) /\ h = <<q, Mail(q)>>
      BY DEF Holding, HalfWays
    <3>2. PICK r \in Requests : HalfWay(r)' /\ h = <<r, Mail(r)'>>
      BY <2>2 DEF AtWork, HalfWays
    <3>3. q = r
      BY <3>1, <3>2
    <3> QED BY <1>1, <3>1, <3>2, <3>3 DEF Holding, HalfWays
  <2>3. Holding \subseteq AtWork
    BY DEF Holding, AtWork, HalfWays
  <2> QED BY <2>1, <2>2, <2>3
<1>4. Safe \subseteq Safe' /\ Safe' \subseteq Mails
  BY SeenStays DEF Safe, Ordinary
<1>5. ASSUME NEW h \in done PROVE h[2] \in Safe'
  <2>1. PICK q \in Requests : HalfWay(q) /\ h = <<q, Mail(q)>>
    BY DEF AtWork, HalfWays
  <2>2. ~ HalfWay(q)'
    <3> SUFFICES ASSUME HalfWay(q)' PROVE FALSE
      OBVIOUS
    <3>1. h \in AtWork'
      BY <1>1, <2>1 DEF AtWork, HalfWays
    <3> QED BY <3>1
  <2> QED BY <2>1, <2>2
<1>6. Tray' = Tray
  BY DEF Tray
<1>7. Life!Bring(Safe', done)
  <2> HIDE DEF done
  <2> QED BY <1>2, <1>3, <1>4, <1>5, <1>6 DEF Life!Bring
<1> QED BY <1>4, <1>7

\* A mail is held, and others are shed for it.
LEMMA RecordHolds ==
    ASSUME Inv, CodeInv, NEW p \in Requests, Records(p)
    PROVE  \/ \E m \in Mails, S \in SUBSET Mails : Life!Hold(m, S)
           \/ UNCHANGED Life!rejectVars
<1> DEFINE n == Mail(p)
           U == Upsert(n, CodeOf(n))
<1>1. /\ held \in [Mails -> Row] /\ n \in Mails
      /\ \/ UNCHANGED held
         \/ \E S \in Shed(U) : held' = [m \in Mails |-> IF m \in S THEN Absent(U[m]) ELSE U[m]]
  BY DEF Inv, TypeInv, ProcType, Records, At, CodeOf
<1>2. /\ UNCHANGED <<landed, torn, seen>>
      /\ ~ HalfWay(p) /\ ~ HalfWay(p)'
      /\ \A q \in Requests \ {p} : proc'[q] = proc[q]
  BY IdleIsThread DEF Inv, TypeInv, ProcType, Records, Rests, HalfWay, At, ghosts
<1>3. UNCHANGED <<AtWork, Safe, torn>>
  <2>1. \A q \in Requests : (HalfWay(q)' <=> HalfWay(q)) /\ (HalfWay(q) => Mail(q)' = Mail(q))
    BY <1>2 DEF HalfWay, Mail
  <2>2. AtWork' = AtWork
    BY <2>1 DEF AtWork, HalfWays
  <2>3. Safe' = Safe
    BY <1>2 DEF Safe, AlreadySeen, Stored, SameMessage
  <2> QED BY <1>2, <2>2, <2>3
<1>4. CASE UNCHANGED held
  <2>1. \A q \in Requests :
            /\ HalfWay(q)' <=> HalfWay(q)
            /\ HalfWay(q) => Mail(q)' = Mail(q) /\ (RowIs(q)' <=> RowIs(q))
    BY <1>2, <1>4 DEF HalfWay, Mail, RowIs, Rows
  <2>2. Holding' = Holding
    BY <2>1 DEF Holding, HalfWays
  <2>3. Tray' = Tray
    BY <1>4 DEF Tray
  <2> QED BY <1>3, <2>2, <2>3 DEF Life!rejectVars
<1>5. /\ U \in [Mails -> Row]
      /\ U[n].code = CodeOf(n)
      /\ \A m \in Mails : m # n => U[m] = held[m]
      /\ \/ U[n].status = held[n].status /\ U[n].rid = held[n].rid /\ held[n].status # "none"
         \/ held[n].status = "none" /\ U[n].status = Open /\ U[n].rid = held[n].rid + 1
  <2>1. CodeOf(n) \in Codes
    BY DEF CodeOf, Codes
  <2> HIDE DEF n
  <2> QED BY <1>1, <2>1, UpsertIsTyped
<1> HIDE DEF U
<1>6. ASSUME NEW S \in Shed(U),
             held' = [m \in Mails |-> IF m \in S THEN Absent(U[m]) ELSE U[m]]
      PROVE  Life!Hold(n, S) /\ S \subseteq Mails
  <2>1. S \subseteq Sheddable(U) /\ S \subseteq Mails
    BY DEF Shed, Sheddable, Rows
  <2>2. \A m \in Mails : U[m] \in Row
    BY <1>5
  <2>3. \A m \in Mails : IF m \in S THEN held'[m].status = "none" ELSE held'[m] = U[m]
    BY <1>6, <2>2, AbsentIsTyped
  <2>4. ASSUME NEW m \in S, m.known PROVE Tray[m] \in {"recovered", "dismissed"}
    <3>1. m \in Mails /\ m \in Rows(U) /\ m \notin Evidence(U)
      BY <2>1 DEF Sheddable
    <3>2. U[m].code = "unparsed"
      BY <1>5, <2>4, <3>1 DEF CodeInv, CodeOf, Rows
    <3>3. U[m].status \in {Recovered, Dismissed}
      BY <2>2, <3>1, <3>2 DEF Rows, Evidence, Row
    <3>4. U[m].status = held[m].status
      BY <1>5, <3>1, <3>3 DEF Open, Recovered, Dismissed
    <3> QED BY <3>1, <3>3, <3>4 DEF Tray, Recovered, Dismissed
  <2>5. Tray' = [m \in Mails |-> IF m \in S THEN "none"
                                 ELSE IF m = n /\ Tray[m] = "none" THEN "open" ELSE Tray[m]]
    <3>1. ASSUME NEW m \in Mails
          PROVE  held'[m].status = IF m \in S THEN "none"
                                   ELSE IF m = n /\ Tray[m] = "none" THEN "open" ELSE Tray[m]
      BY <1>5, <2>3 DEF Tray, Open
    <3> QED BY <3>1 DEF Tray
  <2>6. ASSUME NEW q \in Requests, HalfWay(q)
        PROVE  /\ HalfWay(q)' /\ Mail(q)' = Mail(q)
               /\ RowIs(q)' <=> RowIs(q) /\ Mail(q) \notin S
    <3>1. proc'[q] = proc[q] /\ HalfWay(q)' /\ Mail(q)' = Mail(q)
      BY <1>2, <2>6 DEF HalfWay, Mail
    <3>2. Mail(q) \in Mails /\ proc[q].row <= held[Mail(q)].rid /\ proc[q].row \in Nat
      BY <2>6 DEF Inv, ClaimInv, TypeInv, ProcType, Thread, At, HalfWay
    <3>3. held[Mail(q)].rid \in Nat
      BY <1>1, <3>2 DEF Row
    <3>4. CASE Mail(q) \in S
      BY <2>3, <3>1, <3>2, <3>4 DEF RowIs, Rows
    <3>5. CASE Mail(q) \notin S
      <4>1. held'[Mail(q)] = U[Mail(q)]
        BY <2>3, <3>2, <3>5
      <4>2. CASE U[Mail(q)].status = held[Mail(q)].status /\ U[Mail(q)].rid = held[Mail(q)].rid
        BY <3>1, <3>2, <3>5, <4>1, <4>2 DEF RowIs, Rows
      <4>3. CASE held[Mail(q)].status = "none" /\ U[Mail(q)].rid = held[Mail(q)].rid + 1
        BY <3>1, <3>2, <3>3, <4>1, <4>3 DEF RowIs, Rows
      <4> QED BY <1>5, <3>2, <4>2, <4>3
    <3> QED BY <3>1, <3>4, <3>5
  <2>7. \A q \in Requests : HalfWay(q)' => HalfWay(q)
    BY <1>2 DEF HalfWay
  <2>8. Holding' = {h \in Holding : h[2] \notin S}
    <3>1. ASSUME NEW h \in Holding' PROVE h \in Holding /\ h[2] \notin S
      BY <2>6, <2>7 DEF Holding, HalfWays
    <3>2. ASSUME NEW h \in Holding, h[2] \notin S PROVE h \in Holding'
      BY <2>6, <3>2 DEF Holding, HalfWays
    <3> QED BY <3>1, <3>2
  <2> HIDE DEF n
  <2> QED BY <1>3, <2>1, <2>4, <2>5, <2>8 DEF Life!Hold
<1> QED BY <1>1, <1>4, <1>6

\* The retries at work after a step in which one of them, p, has changed.
LEMMA OthersWorkOn ==
    ASSUME Inv, NEW n \in Mails, held[n].status # "none",
           \A m \in Mails \ {n} : held'[m] = held[m],
           held'[n].status # "none", held'[n].rid = held[n].rid,
           NEW p \in Requests, \A q \in Requests \ {p} : proc'[q] = proc[q]
    PROVE  \A q \in Requests \ {p} :
               /\ HalfWay(q)' <=> HalfWay(q)
               /\ HalfWay(q) => Mail(q)' = Mail(q) /\ (RowIs(q)' <=> RowIs(q))
<1> SUFFICES ASSUME NEW q \in Requests \ {p}
             PROVE  /\ HalfWay(q)' <=> HalfWay(q)
                    /\ HalfWay(q) => Mail(q)' = Mail(q) /\ (RowIs(q)' <=> RowIs(q))
  OBVIOUS
<1>1. (HalfWay(q)' <=> HalfWay(q)) /\ Mail(q)' = Mail(q) /\ proc'[q].row = proc[q].row
  BY DEF HalfWay, Mail
<1>2. HalfWay(q) => Mail(q) \in Mails
  BY DEF Inv, TypeInv, ProcType, HalfWay, At
<1> QED BY <1>1, <1>2 DEF RowIs, Rows

LEMMA MarkClaims ==
    ASSUME Inv, NEW p \in Requests, Marks(p)
    PROVE  \/ \E m \in Mails : Life!Claim(p, m)
           \/ UNCHANGED Life!rejectVars
<1> DEFINE n == Mail(p)
<1>1. /\ held \in [Mails -> Row] /\ proc \in [Requests -> Thread] /\ n \in Mails
      /\ proc[p].at = "marking" /\ proc[p].by = "retry" /\ ~ HalfWay(p)
      /\ UNCHANGED <<seen, landed, torn>>
  BY DEF Inv, TypeInv, ProcType, ClaimInv, Routed, Marks, At, HalfWay, ghosts
<1>2. UNCHANGED Safe
  BY <1>1 DEF Safe, AlreadySeen, Stored, SameMessage
<1>3. CASE Rests(p) /\ UNCHANGED held
  <2>1. ~ HalfWay(p)' /\ \A q \in Requests \ {p} : proc'[q] = proc[q]
    BY <1>1, <1>3, IdleIsThread DEF Rests, HalfWay
  <2>2. \A q \in Requests :
            /\ HalfWay(q)' <=> HalfWay(q)
            /\ HalfWay(q) => Mail(q)' = Mail(q) /\ (RowIs(q)' <=> RowIs(q))
    BY <1>1, <1>3, <2>1 DEF HalfWay, Mail, RowIs, Rows
  <2>3. AtWork' = AtWork /\ Holding' = Holding /\ Tray' = Tray
    BY <1>3, <2>2 DEF AtWork, Holding, HalfWays, Tray
  <2> QED BY <1>1, <1>2, <2>3 DEF Life!rejectVars
<1>4. CASE /\ RowIs(p) /\ held[n].status = Open
           /\ held' = [held EXCEPT ![n].status = Recovered]
           /\ Goes(p, "looking")
  <2>1. /\ \A m \in Mails \ {n} : held'[m] = held[m]
        /\ held'[n].status = Recovered /\ held'[n].rid = held[n].rid
    BY <1>1, <1>4, StatusIsTyped
  <2>2. /\ \A q \in Requests \ {p} : proc'[q] = proc[q]
        /\ HalfWay(p)' /\ Mail(p)' = n /\ proc'[p].row = proc[p].row
    BY <1>1, <1>4 DEF Goes, Mail, Thread, HalfWay
  <2>3. RowIs(p)'
    BY <1>1, <1>4, <2>1, <2>2 DEF RowIs, Rows, Recovered
  <2> HIDE DEF n
  <2>4. \A q \in Requests \ {p} :
            /\ HalfWay(q)' <=> HalfWay(q)
            /\ HalfWay(q) => Mail(q)' = Mail(q) /\ (RowIs(q)' <=> RowIs(q))
    BY <1>1, <1>4, <2>1, <2>2, OthersWorkOn DEF Open, Recovered
  <2>5. AtWork' = AtWork \cup {<<p, n>>}
    BY <1>1, <2>2, <2>4 DEF AtWork, HalfWays
  <2>6. Holding' = Holding \cup {<<p, n>>}
    BY <1>1, <2>2, <2>3, <2>4 DEF Holding, HalfWays
  <2>7. Tray[n] = "open" /\ Tray' = [Tray EXCEPT ![n] = "recovered"]
    BY <1>1, <1>4, <2>1 DEF Tray, Open, Recovered
  <2> QED BY <1>1, <1>2, <2>5, <2>6, <2>7 DEF Life!Claim
<1> QED BY <1>3, <1>4 DEF Marks

LEMMA ReopenHandsBack ==
    ASSUME Inv, NEW p \in Requests, Reopens(p)
    PROVE  \E m \in Mails : Life!HandBack(p, m)
<1> DEFINE n == Mail(p)
<1>1. /\ held \in [Mails -> Row] /\ proc \in [Requests -> Thread] /\ n \in Mails
      /\ HalfWay(p)
      /\ UNCHANGED <<seen, landed, torn>>
      /\ held' = [held EXCEPT ![n].status = IF RowIs(p) THEN Open ELSE @]
  BY DEF Inv, TypeInv, ProcType, ClaimInv, Routed, Reopens, At, HalfWay, ghosts
<1>2. UNCHANGED Safe
  BY <1>1 DEF Safe, AlreadySeen, Stored, SameMessage
<1>3. ~ HalfWay(p)' /\ \A q \in Requests \ {p} : proc'[q] = proc[q]
  BY <1>1, IdleIsThread DEF Reopens, Rests, HalfWay
<1>4. <<p, n>> \in AtWork /\ (<<p, n>> \in Holding <=> RowIs(p))
  BY <1>1 DEF AtWork, Holding, HalfWays
<1>5. /\ \A m \in Mails \ {n} : held'[m] = held[m]
      /\ held'[n].rid = held[n].rid
      /\ held'[n].status = IF RowIs(p) THEN Open ELSE held[n].status
  <2>1. held[n].status \in {"none", Open, Recovered, Dismissed}
    BY <1>1 DEF Row
  <2>2. held' = [held EXCEPT ![n].status = IF RowIs(p) THEN Open ELSE held[n].status]
    BY <1>1
  <2> HIDE DEF n
  <2> QED BY <1>1, <2>1, <2>2, StatusIsTyped
<1>6. RowIs(p) => held[n].status # "none"
  BY DEF RowIs, Rows
<1> HIDE DEF n
<1>7. \A q \in Requests \ {p} :
          /\ HalfWay(q)' <=> HalfWay(q)
          /\ HalfWay(q) => Mail(q)' = Mail(q) /\ (RowIs(q)' <=> RowIs(q))
  <2>1. CASE held[n].status = "none"
    <3>1. \A m \in Mails : held'[m].status = held[m].status /\ held'[m].rid = held[m].rid
      BY <1>5, <1>6, <2>1
    <3>2. \A q \in Requests : HalfWay(q) => Mail(q) \in Mails
      BY DEF Inv, TypeInv, ProcType, HalfWay, At
    <3> QED BY <1>3, <3>1, <3>2 DEF HalfWay, Mail, RowIs, Rows
  <2>2. CASE held[n].status # "none"
    BY <1>1, <1>3, <1>5, <2>2, OthersWorkOn DEF Open
  <2> QED BY <2>1, <2>2
<1>8. AtWork' = AtWork \ {<<p, n>>} /\ Holding' = Holding \ {<<p, n>>}
  BY <1>3, <1>7 DEF AtWork, Holding, HalfWays, n
<1>9. Tray' = IF <<p, n>> \in Holding THEN [Tray EXCEPT ![n] = "open"] ELSE Tray
  BY <1>1, <1>4, <1>5 DEF Tray, Open
<1> QED BY <1>1, <1>2, <1>4, <1>8, <1>9 DEF Life!HandBack

LEMMA DismissDismisses ==
    ASSUME Inv, NEW n \in Mails, Dismisses(n)
    PROVE  Life!Dismiss(n)
<1>1. /\ held \in [Mails -> Row] /\ held[n].status = Open
      /\ UNCHANGED <<seen, landed, torn, proc>>
      /\ held' = [held EXCEPT ![n].status = Dismissed]
  BY DEF Inv, TypeInv, Dismisses, ghosts
<1>2. /\ \A m \in Mails \ {n} : held'[m] = held[m]
      /\ held'[n].status = Dismissed /\ held'[n].rid = held[n].rid
  BY <1>1, StatusIsTyped
<1>3. \A q \in Requests :
          /\ HalfWay(q)' <=> HalfWay(q)
          /\ HalfWay(q) => Mail(q)' = Mail(q) /\ (RowIs(q)' <=> RowIs(q))
  <2>1. \A q \in Requests : HalfWay(q) => Mail(q) \in Mails
    BY DEF Inv, TypeInv, ProcType, HalfWay, At
  <2> QED BY <1>1, <1>2, <2>1 DEF HalfWay, Mail, RowIs, Rows, Open, Dismissed
<1>4. AtWork' = AtWork /\ Holding' = Holding
  BY <1>3 DEF AtWork, Holding, HalfWays
<1>5. Tray[n] = "open" /\ Tray' = [Tray EXCEPT ![n] = "dismissed"]
  BY <1>1, <1>2 DEF Tray, Open, Dismissed
<1>6. Safe' = Safe
  BY <1>1 DEF Safe, AlreadySeen, Stored, SameMessage
<1> QED BY <1>1, <1>4, <1>5, <1>6 DEF Life!Dismiss

LEMMA CrashTears ==
    ASSUME Crash
    PROVE  Life!Tear
<1>1. AtWork' = {} /\ Holding' = {}
  BY IdleIsThread DEF Crash, AtWork, Holding, HalfWays, HalfWay
<1>2. torn' = torn \cup {h[2] : h \in AtWork}
  <2>1. {h[2] : h \in AtWork} = {Mail(q) : q \in HalfWays}
    <3>1. ASSUME NEW q \in HalfWays PROVE Mail(q) \in {h[2] : h \in AtWork}
      <4>1. <<q, Mail(q)>> \in AtWork /\ <<q, Mail(q)>>[2] = Mail(q)
        BY DEF AtWork
      <4> QED BY <4>1
    <3>2. ASSUME NEW h \in AtWork PROVE h[2] \in {Mail(q) : q \in HalfWays}
      BY DEF AtWork
    <3> QED BY <3>1, <3>2
  <2> QED BY <2>1 DEF Crash, HalfWays
<1>3. Tray' = Tray /\ Safe' = Safe
  BY DEF Crash, tables, Tray, Safe, AlreadySeen, Stored, SameMessage
<1> QED BY <1>1, <1>2, <1>3 DEF Life!Tear

\* The reject queue keeps its promises, whatever is delivered, shed, recorded
\* anew, retried, dismissed or backfilled meanwhile, and whatever raises or
\* dies: every step of Inbound is one action of RejectLife, or none.
THEOREM ImplementsRejectLife == Spec => RejectLifeSpec
<1>1. Init => Life!Init
  <2> SUFFICES ASSUME Init PROVE Life!Init
    OBVIOUS
  <2>1. AtWork = {} /\ Holding = {}
    BY IdleIsThread DEF Init, AtWork, Holding, HalfWays, HalfWay
  <2>2. Tray = [m \in Mails |-> "none"]
    BY DEF Init, Tray, NoRow
  <2>3. Safe = {}
    BY DEF Init, Safe, AlreadySeen, Stored
  <2> QED BY <2>1, <2>2, <2>3 DEF Init, Life!Init
<1>2. Inv /\ CodeInv /\ [Next]_vars => [Life!Next]_(Life!rejectVars)
  <2> SUFFICES ASSUME Inv, CodeInv, [Next]_vars
               PROVE  Life!Next \/ UNCHANGED Life!rejectVars
    OBVIOUS
  <2>1. CASE UNCHANGED vars
    <3>1. UNCHANGED <<held, seen, landed, torn, proc>>
      BY <2>1 DEF vars, tables, ghosts
    <3>2. UNCHANGED <<AtWork, Holding>>
      BY <3>1 DEF AtWork, Holding, HalfWays, HalfWay, Mail, RowIs, Rows
    <3>3. UNCHANGED <<Tray, Safe>>
      BY <3>1 DEF Tray, Safe, AlreadySeen, Stored, SameMessage
    <3> QED BY <3>1, <3>2, <3>3 DEF Life!rejectVars
  <2>2. CASE \E p \in Requests : Records(p)
    BY <2>2, RecordHolds DEF Life!Next
  <2>3. CASE \E p \in Requests : Marks(p)
    BY <2>3, MarkClaims DEF Life!Next
  <2>4. CASE \E p \in Requests : Reopens(p)
    BY <2>4, ReopenHandsBack DEF Life!Next
  <2>5. CASE \E n \in Mails : Dismisses(n)
    BY <2>5, DismissDismisses DEF Life!Next
  <2>6. CASE Crash
    BY <2>6, CrashTears DEF Life!Next
  <2>7. ASSUME Next, ~ Crash, ~ \E n \in Mails : Dismisses(n),
               ~ \E p \in Requests : Records(p) \/ Marks(p) \/ Reopens(p)
        PROVE  Life!Next
    <3>1. Ordinary
      BY <2>7, RequestIsOrdinary, WorldIsOrdinary DEF Inv, Next, RequestStep
    <3>2. UNCHANGED <<held, torn>>
      BY <2>7 DEF Next, RequestStep, Claims, Finds, OnBoard, Remembers, Resolves, Answers,
                  Applies, Looks, Fails, Arrives, Retries, Closes, BoardStep, BoardLoads,
                  BoardPicks, BoardLands, BoardFails, Deploys, Tick, tables, ghosts
    <3>3. \A q \in Requests : HalfWay(q) /\ ~ HalfWay(q)' => Mail(q) \in Safe'
      BY <2>7, RetriesEndSafe
    <3>4. \E S \in SUBSET Mails, done \in SUBSET AtWork : Life!Bring(S, done)
      BY <3>1, <3>2, <3>3, OrdinaryBrings
    <3> QED BY <3>4 DEF Life!Next
  <2> QED BY <2>1, <2>2, <2>3, <2>4, <2>5, <2>6, <2>7
<1>3. Spec => [](Inv /\ CodeInv)
  BY InvHolds, CodeHolds, PTL
<1> QED BY <1>1, <1>2, <1>3, PTL DEF Spec, RejectLifeSpec, Life!Spec

\* What RejectLife alone is good for: a row is held by one retry, and only one
\* that is `recovered`, so a hand-back cannot meet a dismissed row.
PromiseInv ==
    /\ Tray \in [Mails -> {"none", "open", "recovered", "dismissed"}]
    /\ Holding \subseteq Requests \X Mails
    /\ \A h \in Holding : Tray[h[2]] = "recovered"
    /\ \A g, h \in Holding : g[2] = h[2] => g = h

LEMMA PromiseKept ==
    ASSUME PromiseInv, [Life!Next]_(Life!rejectVars)
    PROVE  /\ PromiseInv'
           /\ \A m \in Mails : Tray[m] = "dismissed" => Tray'[m] \in {"none", "dismissed"}
<1> USE DEF PromiseInv
<1>1. CASE UNCHANGED Life!rejectVars
  BY <1>1 DEF Life!rejectVars
<1>2. ASSUME NEW m \in Mails, NEW S \in SUBSET Mails, Life!Hold(m, S)
      PROVE  /\ PromiseInv'
             /\ \A n \in Mails : Tray[n] = "dismissed" => Tray'[n] \in {"none", "dismissed"}
  BY <1>2 DEF Life!Hold
<1>3. ASSUME NEW p \in Requests, NEW m \in Mails, Life!Claim(p, m)
      PROVE  /\ PromiseInv'
             /\ \A n \in Mails : Tray[n] = "dismissed" => Tray'[n] \in {"none", "dismissed"}
  BY <1>3 DEF Life!Claim
<1>4. ASSUME NEW p \in Requests, NEW m \in Mails, Life!HandBack(p, m)
      PROVE  /\ PromiseInv'
             /\ \A n \in Mails : Tray[n] = "dismissed" => Tray'[n] \in {"none", "dismissed"}
  BY <1>4 DEF Life!HandBack
<1>5. ASSUME NEW m \in Mails, Life!Dismiss(m)
      PROVE  /\ PromiseInv'
             /\ \A n \in Mails : Tray[n] = "dismissed" => Tray'[n] \in {"none", "dismissed"}
  BY <1>5 DEF Life!Dismiss
<1>6. CASE (\E S \in SUBSET Mails, done \in SUBSET AtWork : Life!Bring(S, done)) \/ Life!Tear
  <2>1. Tray' = Tray /\ Holding' \subseteq Holding
    BY <1>6 DEF Life!Bring, Life!Tear
  <2> QED BY <2>1
<1> QED BY <1>1, <1>2, <1>3, <1>4, <1>5, <1>6 DEF Life!Next

\* DismissedStays follows from the promise, and needs nothing else of Inbound.
THEOREM PromiseKeepsDismissals == RejectLifeSpec => DismissedStays
<1>1. Life!Init => PromiseInv
  BY DEF Life!Init, PromiseInv
<1>2. PromiseInv /\ [Life!Next]_(Life!rejectVars) => PromiseInv'
  BY PromiseKept
<1>3. PromiseInv /\ [Life!Next]_(Life!rejectVars)
         => [\A m \in Mails : held[m].status = Dismissed
                => held'[m].status \in {"none", Dismissed}]_vars
  BY PromiseKept DEF Tray, Dismissed
<1> QED BY <1>1, <1>2, <1>3, PTL DEF RejectLifeSpec, Life!Spec, DismissedStays
=============================================================================
