-------------------------- MODULE RegistrationProofs --------------------------
(***************************************************************************)
(* Proofs about Registration, for any number of Events, Persons, requests  *)
(* and transactions, and any bounds.                                       *)
(***************************************************************************)
EXTENDS Registration, FiniteSetTheorems, TLAPS

\* What a transaction has seen is never undone: the Persons of its snapshot
\* are still there, and a primary that was on the roster still is.
ViewsBehind ==
  \A t \in Txns :
    view[t] # None =>
      /\ Persons(view[t].people) \subseteq Persons(people)
      /\ \A p \in Live(people) : p \in Students(view[t].people) => people[p].roster

TypeInv == TypeOK /\ ViewsBehind

\* How a step may change a Person: his contacts, while the rest stays.
SamePeople(ppl) ==
  /\ ppl \in [People -> PersonType \cup {Absent}]
  /\ \A p \in People : ppl[p] = Absent <=> people[p] = Absent
  /\ \A p \in Persons(people) :
       /\ ppl[p].alias = people[p].alias
       /\ ppl[p].roster = people[p].roster
       /\ ppl[p].review = people[p].review

-----------------------------------------------------------------------------
LEMMA SnapshotType ==
  ASSUME TypeOK
  PROVE  Snapshot \in ViewType /\ Snapshot # None
BY AbsentAssumption DEF TypeOK, TablesOK, Snapshot, ViewType

LEMMA RefreshedType ==
  ASSUME NEW old \in SUBSET Contacts, NEW new \in SUBSET Contacts
  PROVE  Refreshed(old, new) \in SUBSET Contacts /\ Refreshed(old, new) \subseteq old \cup new
BY DEF Refreshed

LEMMA ContactFacts ==
  ASSUME TypeOK, NEW t \in Txns, NEW isNew \in BOOLEAN, form[t] # None
  PROVE  /\ SamePeople(Contact(t, isNew))
         /\ \A p \in Persons(people) : Contact(t, isNew)[p].ids \subseteq people[p].ids \cup form[t].ids
<1> DEFINE who == pick[t].who
           new == [people[who] EXCEPT !.ids = Refreshed(@, form[t].ids)]
<1>1. people \in [People -> PersonType \cup {Absent}] /\ form[t] \in Forms
  BY DEF TypeOK, TablesOK, TxnsOK
<1>2. form[t].ids \in SUBSET Contacts
  BY <1>1, FormsAssumption DEF FormType
<1>3. CASE ~Updates(t, isNew) \/ who \notin People
  <2>1. Contact(t, isNew) = people
    BY <1>1, <1>3 DEF Contact
  <2> QED
    BY <2>1, <1>1 DEF SamePeople, Persons
<1>4. CASE Updates(t, isNew) /\ who \in People
  <2>1. people[who] # Absent /\ people[who] \in PersonType
    BY <1>1, <1>4, PeopleAssumption DEF TypeOK, PointsOK
  <2>2. people[who].ids \in SUBSET Contacts
    BY <2>1 DEF PersonType
  <2>3. Refreshed(people[who].ids, form[t].ids) \in SUBSET Contacts
        /\ Refreshed(people[who].ids, form[t].ids) \subseteq people[who].ids \cup form[t].ids
    BY <2>2, <1>2, RefreshedType
  <2>4. /\ new \in PersonType /\ new # Absent
        /\ new.alias = people[who].alias /\ new.roster = people[who].roster
        /\ new.review = people[who].review
        /\ new.ids \subseteq people[who].ids \cup form[t].ids
    BY <2>1, <2>3, AbsentAssumption DEF PersonType
  <2>5. Contact(t, isNew) = [people EXCEPT ![who] = new]
    BY <1>4 DEF Contact
  <2> QED
    BY <1>1, <1>4, <2>1, <2>4, <2>5 DEF SamePeople, Persons
<1> QED
  BY <1>3, <1>4

LEMMA EndFacts ==
  ASSUME TxnsOK, PointsOK, NEW t \in Txns, End(t),
         \A p \in People : people[p] # Absent => people'[p] # Absent
  PROVE  TxnsOK' /\ PointsOK'
<1>1. TxnsOK'
  BY DEF TxnsOK, End, NoPick, Hows
<1>2. PointsOK'
  BY PeopleAssumption DEF TxnsOK, PointsOK, End, NoPick, IsImport
<1> QED
  BY <1>1, <1>2

LEMMA ReceiveType ==
  ASSUME TablesOK, NEW t \in Txns, form[t] \in Forms, NEW r \in Regs \cup {None},
         Receive(t, r)
  PROVE  receipts' \subseteq ReceiptType
<1>1. /\ form[t].place \in Places /\ EventOf[form[t].place] \in Events
      /\ form[t].source \in Sources /\ form[t].request \in Requests \cup {None}
  BY FormsAssumption, PlacesAssumption DEF FormType
<1> QED
  BY <1>1 DEF TablesOK, Receive, Receipt, ReceiptType

\* The steps of a transaction before its end write no table.
LEMMA ReadOnlyStep ==
  ASSUME TypeInv, UNCHANGED dbVars, TxnsOK', PointsOK',
         \A t \in Txns : view'[t] \in {view[t], None, Snapshot}
  PROVE  TypeInv'
<1>1. TablesOK' /\ AliasesEnd' /\ PersonsThere'
  BY DEF TypeInv, TypeOK, TablesOK, AliasesEnd, PersonsThere, dbVars, Rows, Persons, Live
<1>2. Snapshot.people = people
  BY DEF Snapshot
<1>3. ViewsBehind'
  BY <1>2 DEF TypeInv, ViewsBehind, dbVars, Persons, Live, Students
<1> QED
  BY <1>1, <1>3 DEF TypeInv, TypeOK

\* The end of a transaction that wrote contacts and receipts only.
LEMMA ContactStep ==
  ASSUME TypeInv, NEW t \in Txns, form[t] # None, Contact(t, FALSE) = people',
         NEW r \in Regs \cup {None}, Receive(t, r), End(t),
         UNCHANGED <<regs, capacity, acts>>
  PROVE  TypeInv'
<1>1. SamePeople(people')
  BY ContactFacts DEF TypeInv
<1>2. form[t] \in Forms
  BY DEF TypeInv, TypeOK, TxnsOK
<1>3. TablesOK'
  BY <1>1, <1>2, ReceiveType DEF TypeInv, TypeOK, TablesOK, SamePeople
<1>4. TxnsOK' /\ PointsOK'
  BY <1>1, EndFacts DEF TypeInv, TypeOK, SamePeople
<1>5. Persons(people') = Persons(people) /\ Live(people') = Live(people)
  BY <1>1 DEF SamePeople, Persons, Live
<1>6. AliasesEnd' /\ PersonsThere'
  BY <1>1, <1>5 DEF TypeInv, TypeOK, TablesOK, AliasesEnd, PersonsThere, SamePeople, Rows, Persons,
     RegType
<1>7. ViewsBehind'
  BY <1>1, <1>5 DEF TypeInv, TypeOK, TxnsOK, ViewsBehind, SamePeople, End, Persons, Live
<1> QED
  BY <1>3, <1>4, <1>6, <1>7 DEF TypeInv, TypeOK

\* What the registration r of a Person p leaves behind.
Registered(t, r, p) ==
  /\ form[t] \in Forms /\ pc[t] = "commit" /\ End(t) /\ Receive(t, r)
  /\ regs' = [regs EXCEPT ![r] = NewRow(t, p)]
  /\ NewRow(t, p) \in RegType /\ NewRow(t, p) # Absent
  /\ people' \in [People -> PersonType \cup {Absent}]
  /\ pick[t].who = p \/ (pick[t].who = None /\ people[p] = Absent)
  /\ people'[p] # Absent
  /\ \A q \in Persons(people) :
       /\ people'[q] # Absent /\ people'[q].alias = people[q].alias
       /\ people'[q].roster = people[q].roster
       /\ people'[q].ids \subseteq people[q].ids \cup form[t].ids
  /\ \A q \in People : people[q] = Absent /\ people'[q] # Absent =>
       /\ q = p /\ pick[t].who = None
       /\ people'[q].ids = form[t].ids /\ people'[q].alias = None /\ ~people'[q].roster
       /\ people'[q].review <=> pick[t].how = "twin"

LEMMA RegisterFacts ==
  ASSUME TypeInv, NEW t \in Txns, Register(t)
  PROVE  \E r \in Regs \ Rows(regs), p \in People : Registered(t, r, p)
<1>1. form[t] \in Forms /\ form[t] # None /\ pick[t].how \in Hows
  BY FormsAssumption DEF TypeInv, TypeOK, TxnsOK, PointsOK, Register
<1>2. form[t].place \in Places /\ form[t].ids \in SUBSET Contacts
  BY <1>1, FormsAssumption DEF FormType
<1> DEFINE twin == pick[t].how = "twin"
           new == [ids |-> form[t].ids, alias |-> None, roster |-> FALSE, review |-> twin]
<1>3. PICK r \in Regs \ Rows(regs), p \in People :
        /\ \/ pick[t].who = p /\ people' = Contact(t, TRUE)
           \/ /\ pick[t].who = None
              /\ people[p] = Absent
              /\ people' = [people EXCEPT ![p] = new]
        /\ regs' = [regs EXCEPT ![r] = NewRow(t, p)]
        /\ Receive(t, r)
  BY DEF Register
<1>4. twin \in BOOLEAN
  OBVIOUS
<1>5. twin <=> pick[t].how = "twin"
  OBVIOUS
<1> HIDE DEF twin
<1>6. /\ people' \in [People -> PersonType \cup {Absent}]
      /\ people'[p] # Absent
      /\ \A q \in Persons(people) :
           /\ people'[q] # Absent /\ people'[q].alias = people[q].alias
           /\ people'[q].roster = people[q].roster
           /\ people'[q].ids \subseteq people[q].ids \cup form[t].ids
      /\ \A q \in People : people[q] = Absent /\ people'[q] # Absent =>
           /\ q = p /\ pick[t].who = None
           /\ people'[q].ids = form[t].ids /\ people'[q].alias = None /\ ~people'[q].roster
           /\ people'[q].review = twin
  <2>1. CASE pick[t].who = p /\ people' = Contact(t, TRUE)
    <3>1. /\ SamePeople(people')
          /\ \A q \in Persons(people) : people'[q].ids \subseteq people[q].ids \cup form[t].ids
      BY <1>1, <2>1, ContactFacts DEF TypeInv
    <3>2. people[p] # Absent
      BY <2>1, PeopleAssumption DEF TypeInv, TypeOK, PointsOK
    <3> QED
      BY <3>1, <3>2 DEF SamePeople, Persons
  <2>2. CASE pick[t].who = None /\ people[p] = Absent /\ people' = [people EXCEPT ![p] = new]
    <3>1. /\ new \in PersonType /\ new.alias = None /\ new.ids = form[t].ids
          /\ ~new.roster /\ new.review = twin
      BY <1>2, <1>4 DEF PersonType
    <3>2. new # Absent
      BY <3>1, AbsentAssumption
    <3>3. people \in [People -> PersonType \cup {Absent}]
      BY DEF TypeInv, TypeOK, TablesOK
    <3> HIDE DEF new
    <3> QED
      BY <2>2, <3>1, <3>2, <3>3 DEF Persons
  <2> QED
    BY <1>3, <2>1, <2>2
<1>7. NewRow(t, p) \in RegType /\ NewRow(t, p) # Absent
  <2>1. NewRow(t, p) \in RegType
    BY <1>1, <1>2 DEF NewRow, RegType
  <2> QED
    BY <2>1, AbsentAssumption
<1>8. pc[t] = "commit" /\ End(t)
  BY DEF Register
<1>9. Registered(t, r, p)
  BY <1>1, <1>3, <1>5, <1>6, <1>7, <1>8 DEF Registered
<1> QED
  BY <1>9

LEMMA RegisterStep ==
  ASSUME TypeInv, NEW t \in Txns, Register(t)
  PROVE  TypeInv'
<1>1. PICK r \in Regs \ Rows(regs), p \in People : Registered(t, r, p)
  BY RegisterFacts
<1>2. \A q \in People : people[q] # Absent => people'[q] # Absent
  BY <1>1 DEF Registered, Persons
<1>3. NewRow(t, p).person = p
  BY DEF NewRow
<1>4. TablesOK'
  BY <1>1, ReceiveType DEF TypeInv, TypeOK, TablesOK, Register, Registered
<1>5. TxnsOK' /\ PointsOK'
  BY <1>1, <1>2, EndFacts DEF TypeInv, TypeOK, Registered
<1>6. AliasesEnd'
  BY <1>1 DEF TypeInv, TypeOK, AliasesEnd, Persons, Live, Registered
<1>7. PersonsThere'
  BY <1>1, <1>2, <1>3 DEF TypeInv, TypeOK, TablesOK, PersonsThere, Rows, RegType, Registered
<1>8. ViewsBehind'
  <2> SUFFICES ASSUME NEW u \in Txns, view'[u] # None
               PROVE  /\ Persons(view'[u].people) \subseteq Persons(people')
                      /\ \A q \in Live(people') :
                           q \in Students(view'[u].people) => people'[q].roster
    BY DEF ViewsBehind
  <2>1. view'[u] = view[u]
    BY <1>1 DEF TypeInv, TypeOK, TxnsOK, Registered, End
  <2> QED
    BY <1>1, <2>1 DEF TypeInv, ViewsBehind, Persons, Live, Students, Registered
<1> QED
  BY <1>4, <1>5, <1>6, <1>7, <1>8 DEF TypeInv, TypeOK

\* What a merge does to the Persons and to the registrations.
PeopleMerged(target, source) ==
  /\ {target, source} \subseteq Live(people) /\ target # source
  /\ people' \in [People -> PersonType \cup {Absent}]
  /\ \A p \in People : people'[p] = Absent <=> people[p] = Absent
  /\ \A p \in Persons(people) :
       /\ people'[p].ids = people[p].ids
       /\ people'[p].alias =
            IF p = source \/ people[p].alias = source THEN target ELSE people[p].alias
  /\ people[target].roster \/ people[source].roster => people'[target].roster
  /\ \A p \in Persons(people) \ {target, source} : people'[p].roster = people[p].roster
RegsMerged(target, source) ==
  /\ regs' \in [Regs -> RegType \cup {Absent}]
  /\ \A r \in Regs : regs'[r] = Absent <=> regs[r] = Absent
  /\ \A r \in Rows(regs) :
       /\ regs'[r].person = IF regs[r].person = source THEN target ELSE regs[r].person
       /\ regs'[r].place = regs[r].place /\ regs'[r].active = regs[r].active
       /\ regs'[r].form = regs[r].form /\ regs'[r].how = regs[r].how

LEMMA MergeFacts ==
  ASSUME TypeInv, NEW target \in People, NEW source \in People, MergePeople(target, source)
  PROVE  PeopleMerged(target, source)
<1> DEFINE aliases == {p \in Persons(people) : people[p].alias = source}
           merged == Primary(target, source)
           tomb == Tombstone(target, source)
<1>1. /\ {target, source} \subseteq Live(people) /\ target # source
      /\ people' = [p \in People |->
           CASE p = target -> merged
             [] p = source -> tomb
             [] p \in aliases -> [people[p] EXCEPT !.alias = target]
             [] OTHER -> people[p]]
  BY DEF MergePeople
<1>2. people \in [People -> PersonType \cup {Absent}]
  BY DEF TypeInv, TypeOK, TablesOK
<1>3. /\ people[target] # Absent /\ people[source] # Absent
      /\ people[target] \in PersonType /\ people[source] \in PersonType
      /\ target \notin aliases /\ source \notin aliases
  BY <1>1, <1>2, PeopleAssumption DEF Live, Persons
<1>4. /\ merged \in PersonType /\ merged # Absent /\ merged.ids = people[target].ids
      /\ merged.alias = people[target].alias
      /\ merged.roster = (people[target].roster \/ people[source].roster)
  <2>1. (people[target].roster \/ people[source].roster) \in BOOLEAN
    OBVIOUS
  <2> DEFINE either == people[target].roster \/ people[source].roster
  <2>2. merged = [people[target] EXCEPT !.review = FALSE, !.roster = either]
    BY DEF Primary
  <2>3. either \in BOOLEAN
    BY <2>1
  <2> HIDE DEF either, merged
  <2>4. /\ merged \in PersonType /\ merged.ids = people[target].ids
        /\ merged.alias = people[target].alias /\ merged.roster = either
    BY <1>3, <2>2, <2>3 DEF PersonType
  <2> QED
    BY <2>4, AbsentAssumption DEF either
<1>5. /\ tomb \in PersonType /\ tomb # Absent /\ tomb.ids = people[source].ids
      /\ tomb.alias = target
  <2> DEFINE both == people[source].roster /\ people[target].roster
  <2>1. both \in BOOLEAN
    OBVIOUS
  <2>2. tomb = [people[source] EXCEPT !.alias = target, !.review = FALSE, !.roster = both]
    BY DEF Tombstone
  <2> HIDE DEF both, tomb
  <2>3. tomb \in PersonType /\ tomb.ids = people[source].ids /\ tomb.alias = target
    BY <1>3, <2>1, <2>2 DEF PersonType
  <2> QED
    BY <2>3, AbsentAssumption
<1>6. \A p \in aliases :
        LET led == [people[p] EXCEPT !.alias = target] IN
        /\ led \in PersonType /\ led # Absent /\ led.ids = people[p].ids
        /\ led.alias = target /\ led.roster = people[p].roster
  BY <1>2, AbsentAssumption DEF PersonType, Persons
<1> HIDE DEF merged, tomb
<1>7. /\ people'[target] = merged /\ people'[source] = tomb
      /\ \A p \in aliases : people'[p] = [people[p] EXCEPT !.alias = target]
      /\ \A p \in People \ (aliases \cup {target, source}) : people'[p] = people[p]
      /\ DOMAIN people' = People
  BY <1>1, <1>3 DEF Persons
<1>8. people' \in [People -> PersonType \cup {Absent}]
  BY <1>1, <1>2, <1>4, <1>5, <1>6, <1>7
<1>9. \A p \in People : people'[p] = Absent <=> people[p] = Absent
  BY <1>3, <1>4, <1>5, <1>6, <1>7 DEF Persons
<1>10. people[target].alias = None /\ people[source].alias = None /\ source # None
  BY <1>1, PeopleAssumption DEF Live
<1>11. \A p \in Persons(people) :
        /\ people'[p].ids = people[p].ids
        /\ people'[p].alias =
             IF p = source \/ people[p].alias = source THEN target ELSE people[p].alias
  BY <1>1, <1>4, <1>5, <1>6, <1>7, <1>10 DEF Persons
<1>12. \A p \in Persons(people) \ {target, source} : people'[p].roster = people[p].roster
  BY <1>6, <1>7 DEF Persons
<1> QED
  BY <1>1, <1>4, <1>7, <1>8, <1>9, <1>11, <1>12 DEF PeopleMerged

LEMMA MergedRegs ==
  ASSUME TypeInv, NEW target \in People, NEW source \in People, MergePeople(target, source)
  PROVE  RegsMerged(target, source)
<1> DEFINE moved(p) == IF p = source THEN target ELSE p
<1>1. /\ regs \in [Regs -> RegType \cup {Absent}]
      /\ regs' = [r \in Regs |-> IF regs[r] = Absent THEN Absent
                                 ELSE [regs[r] EXCEPT !.person = moved(@)]]
  BY DEF MergePeople, TypeInv, TypeOK, TablesOK
<1>2. \A r \in Rows(regs) :
        LET row == [regs[r] EXCEPT !.person = moved(@)] IN
        /\ regs'[r] = row /\ row \in RegType /\ row.person = moved(regs[r].person)
        /\ row.place = regs[r].place /\ row.active = regs[r].active
        /\ row.form = regs[r].form /\ row.how = regs[r].how
  BY <1>1 DEF Rows, RegType
<1>3. \A r \in Rows(regs) : regs'[r] # Absent
  BY <1>2, AbsentAssumption
<1>4. \A r \in Regs \ Rows(regs) : regs'[r] = Absent
  BY <1>1 DEF Rows
<1> QED
  BY <1>1, <1>2, <1>3, <1>4 DEF Rows, RegsMerged

LEMMA MergeStep ==
  ASSUME TypeInv, NEW target \in People, NEW source \in People, MergePeople(target, source)
  PROVE  TypeInv'
<1>1. PeopleMerged(target, source) /\ RegsMerged(target, source)
  BY MergeFacts, MergedRegs
<1>2. UNCHANGED <<receipts, capacity, txnVars>> /\ acts < MaxActs /\ acts' = acts + 1
  BY DEF MergePeople, Act
<1>3. TablesOK'
  BY <1>1, <1>2, BoundsAssumption DEF TypeInv, TypeOK, TablesOK, PeopleMerged, RegsMerged
<1>4. TxnsOK'
  BY <1>2 DEF TypeInv, TypeOK, TxnsOK, txnVars
<1>5. PointsOK'
  BY <1>1, <1>2 DEF TypeInv, TypeOK, TxnsOK, PointsOK, PeopleMerged, txnVars, IsImport
<1>6. AliasesEnd'
  BY <1>1, PeopleAssumption DEF TypeInv, TypeOK, AliasesEnd, PeopleMerged, Persons, Live
<1>7. PersonsThere'
  BY <1>1 DEF TypeInv, TypeOK, TablesOK, PersonsThere, PeopleMerged, RegsMerged, Rows, Live,
     Persons, RegType
<1>8. ViewsBehind'
  <2> SUFFICES ASSUME NEW u \in Txns, view[u] # None
               PROVE  /\ Persons(view[u].people) \subseteq Persons(people')
                      /\ \A q \in Live(people') :
                           q \in Students(view[u].people) => people'[q].roster
    BY <1>2 DEF ViewsBehind, txnVars
  <2>1. Persons(view[u].people) \subseteq Persons(people')
    BY <1>1 DEF TypeInv, ViewsBehind, PeopleMerged, Persons
  <2>2. ASSUME NEW q \in Live(people'), q \in Students(view[u].people)
        PROVE  people'[q].roster
    <3>1. q \in Live(people) /\ q # source
      BY <1>1, PeopleAssumption DEF PeopleMerged, Live, Persons
    <3>2. people[q].roster
      BY <3>1, <2>2 DEF TypeInv, ViewsBehind
    <3>3. CASE q = target
      BY <1>1, <3>2, <3>3, Zenon DEF PeopleMerged
    <3>4. CASE q # target
      <4>1. people'[q].roster = people[q].roster
        BY <1>1, <3>1, <3>4 DEF PeopleMerged, Live
      <4> QED
        BY <4>1, <3>2
    <3> QED
      BY <3>3, <3>4
  <2> QED
    BY <2>1, <2>2
<1> QED
  BY <1>3, <1>4, <1>5, <1>6, <1>7, <1>8 DEF TypeInv, TypeOK

\* The other writes of administrators.
LEMMA AnnulFacts ==
  ASSUME TypeInv, NEW r \in Regs, Annul(r)
  PROVE  /\ regs[r] # Absent /\ regs' \in [Regs -> RegType \cup {Absent}]
         /\ \A s \in Regs : s # r => regs'[s] = regs[s]
         /\ regs'[r] # Absent /\ ~regs'[r].active
         /\ regs'[r].person = regs[r].person /\ regs'[r].place = regs[r].place
         /\ regs'[r].form = regs[r].form /\ regs'[r].how = regs[r].how
<1> DEFINE annulled == [regs[r] EXCEPT !.active = FALSE]
<1>1. regs \in [Regs -> RegType \cup {Absent}] /\ regs[r] # Absent /\ regs[r] \in RegType
  BY DEF TypeInv, TypeOK, TablesOK, Annul, Rows
<1>2. /\ annulled \in RegType /\ ~annulled.active
      /\ annulled.person = regs[r].person /\ annulled.place = regs[r].place
      /\ annulled.form = regs[r].form /\ annulled.how = regs[r].how
  BY <1>1 DEF RegType
<1>3. annulled # Absent
  BY <1>2, AbsentAssumption
<1>4. regs' = [regs EXCEPT ![r] = annulled]
  BY DEF Annul
<1> HIDE DEF annulled
<1> QED
  BY <1>1, <1>2, <1>3, <1>4

LEMMA AnnulStep ==
  ASSUME TypeInv, NEW r \in Regs, Annul(r)
  PROVE  TypeInv'
<1>1. /\ UNCHANGED <<people, receipts, capacity, txnVars>>
      /\ acts < MaxActs /\ acts' = acts + 1
  BY DEF Annul, Act
<1>2. TablesOK'
  BY <1>1, AnnulFacts, BoundsAssumption DEF TypeInv, TypeOK, TablesOK
<1>3. TxnsOK' /\ PointsOK' /\ AliasesEnd' /\ ViewsBehind'
  BY <1>1 DEF TypeInv, TypeOK, TxnsOK, PointsOK, AliasesEnd, ViewsBehind, txnVars, IsImport,
     Persons, Live
<1>4. PersonsThere'
  BY <1>1, AnnulFacts DEF TypeInv, TypeOK, PersonsThere, Rows
<1> QED
  BY <1>2, <1>3, <1>4 DEF TypeInv, TypeOK

LEMMA CapacityStep ==
  ASSUME TypeInv, NEW pl \in Places, NEW c \in 1..MaxCapacity, SetCapacity(pl, c)
  PROVE  TypeInv'
<1>1. /\ UNCHANGED <<people, regs, receipts, txnVars>> /\ capacity' = [capacity EXCEPT ![pl] = c]
      /\ acts < MaxActs /\ acts' = acts + 1
  BY DEF SetCapacity, Act
<1>2. TablesOK'
  BY <1>1, BoundsAssumption DEF TypeInv, TypeOK, TablesOK
<1>3. TxnsOK' /\ PointsOK' /\ AliasesEnd' /\ ViewsBehind' /\ PersonsThere'
  BY <1>1 DEF TypeInv, TypeOK, TxnsOK, PointsOK, AliasesEnd, ViewsBehind, PersonsThere, txnVars,
     IsImport, Persons, Live, Rows
<1> QED
  BY <1>2, <1>3 DEF TypeInv, TypeOK

LEMMA TypeInit == Init => TypeInv
<1> SUFFICES ASSUME Init PROVE TypeInv
  OBVIOUS
<1> DEFINE student == [ids |-> {}, alias |-> None, roster |-> TRUE, review |-> FALSE]
<1>1. student \in PersonType /\ student # Absent /\ student.alias = None
  <2>1. student \in PersonType /\ student.alias = None
    BY DEF PersonType
  <2> QED
    BY <2>1, AbsentAssumption
<1>2. PICK loaded \in SUBSET Roster :
        people = [p \in People |-> IF p \in loaded THEN student ELSE Absent]
  BY DEF Init
<1> HIDE DEF student
<1>3. TablesOK
  <2>1. people \in [People -> PersonType \cup {Absent}]
    BY <1>1, <1>2
  <2>2. regs \in [Regs -> RegType \cup {Absent}] /\ receipts \subseteq ReceiptType
    BY DEF Init
  <2>3. capacity \in [Places -> 1..MaxCapacity] /\ acts \in 0..MaxActs
    BY BoundsAssumption DEF Init
  <2> QED
    BY <2>1, <2>2, <2>3 DEF TablesOK
<1>4. TxnsOK /\ PointsOK
  BY PeopleAssumption DEF Init, TxnsOK, PointsOK, NoPick, Hows
<1>5. AliasesEnd
  BY <1>1, <1>2 DEF AliasesEnd, Persons
<1>6. PersonsThere /\ ViewsBehind
  BY DEF Init, PersonsThere, ViewsBehind, Rows
<1> QED
  BY <1>3, <1>4, <1>5, <1>6 DEF TypeInv, TypeOK

LEMMA RequestStep ==
  ASSUME TypeInv, NEW t \in Txns, Request(t)
  PROVE  TypeInv'
<1>1. Snapshot \in ViewType /\ Snapshot # None
  BY SnapshotType DEF TypeInv
<1>2. TxnsOK /\ PointsOK /\ None \notin Forms /\ None \notin People
  BY FormsAssumption, PeopleAssumption DEF TypeInv, TypeOK
<1>3. CASE Begin(t)
  <2>1. TxnsOK' /\ PointsOK'
    <3>1. TxnsOK'
      BY <1>2, <1>3 DEF TxnsOK, Begin
    <3>2. PICK f \in Forms : f.source # "EXCEL_IMPORT" /\ form' = [form EXCEPT ![t] = f]
      BY <1>3 DEF Begin
    <3>3. PointsOK'
      BY <1>2, <1>3, <3>2 DEF TxnsOK, PointsOK, Begin, IsImport, dbVars
    <3> QED
      BY <3>1, <3>3
  <2> QED
    BY <1>3, <2>1, ReadOnlyStep DEF Begin
<1>4. CASE OpenImport(t)
  <2>1. TxnsOK' /\ PointsOK'
    <3>1. TxnsOK'
      BY <1>1, <1>2, <1>4 DEF TxnsOK, OpenImport
    <3>2. PointsOK'
      BY <1>1, <1>2, <1>4 DEF TxnsOK, PointsOK, OpenImport, IsImport, dbVars
    <3> QED
      BY <3>1, <3>2
  <2>2. \A u \in Txns : view'[u] \in {view[u], None, Snapshot}
    BY <1>2, <1>4 DEF TxnsOK, OpenImport
  <2> QED
    BY <1>4, <2>1, <2>2, ReadOnlyStep DEF OpenImport
<1>5. CASE LockEvent(t)
  <2>1. PICK seen : /\ seen = IF IsImport(t) THEN view[t] ELSE Snapshot
                    /\ view' = [view EXCEPT ![t] = seen]
    BY <1>5 DEF LockEvent
  <2>2. seen \in ViewType /\ seen # None
    BY <1>1, <1>2, <1>5, <2>1 DEF TxnsOK, PointsOK, LockEvent
  <2>3. TxnsOK'
    BY <1>2, <1>5, <2>1, <2>2 DEF TxnsOK, LockEvent
  <2>4. PointsOK'
    BY <1>2, <1>5, <2>1, <2>2 DEF TxnsOK, PointsOK, LockEvent, IsImport, dbVars
  <2>5. \A u \in Txns : view'[u] \in {view[u], None, Snapshot}
    BY <1>2, <2>1 DEF TxnsOK
  <2> QED
    BY <1>5, <2>3, <2>4, <2>5, ReadOnlyStep DEF LockEvent
<1>6. CASE TakeKeys(t)
  <2>1. TxnsOK' /\ PointsOK'
    <3>1. TxnsOK'
      BY <1>2, <1>6 DEF TxnsOK, TakeKeys
    <3>2. PointsOK'
      BY <1>2, <1>6 DEF TxnsOK, PointsOK, TakeKeys, IsImport, dbVars
    <3> QED
      BY <3>1, <3>2
  <2> QED
    BY <1>6, <2>1, ReadOnlyStep DEF TakeKeys
<1>7. CASE Replay(t) \/ Rollback(t)
  <2>1. End(t) /\ UNCHANGED dbVars
    BY <1>7 DEF Replay, Rollback
  <2>2. TxnsOK' /\ PointsOK'
    BY <1>2, <2>1, EndFacts DEF dbVars
  <2>3. \A u \in Txns : view'[u] \in {view[u], None, Snapshot}
    BY <1>2, <2>1 DEF TxnsOK, End
  <2> QED
    BY <2>1, <2>2, <2>3, ReadOnlyStep
<1>8. ASSUME pc[t] = "resolve", pc' = [pc EXCEPT ![t] = "commit"],
             NEW p \in People \cup {None}, NEW h \in Hows,
             p # None => p \in Persons(people),
             pick' = [pick EXCEPT ![t] = [who |-> p, how |-> h]],
             NEW held \in SUBSET People, rows' = [rows EXCEPT ![t] = held],
             UNCHANGED <<dbVars, form, view>>
      PROVE  TypeInv'
  <2>1. TxnsOK'
    BY <1>2, <1>8 DEF TxnsOK
  <2>2. PointsOK'
    BY <1>2, <1>8 DEF TxnsOK, PointsOK, IsImport, dbVars, Persons
  <2> QED
    BY <1>8, <2>1, <2>2, ReadOnlyStep
<1>9. pc[t] = "resolve" => view[t] # None /\ Persons(view[t].people) \subseteq Persons(people)
  BY <1>2 DEF PointsOK, TypeInv, ViewsBehind
<1>10. CASE ByRoster(t)
  <2>1. PICK p \in People :
          /\ RosterCandidates(view[t].people, form[t]) = {p}
          /\ pick' = [pick EXCEPT ![t] = [who |-> p, how |-> "roster"]]
    BY <1>10 DEF ByRoster
  <2>2. p \in Persons(people)
    BY <1>9, <1>10, <2>1 DEF ByRoster, RosterCandidates, Live
  <2>3. rows' = [rows EXCEPT ![t] = rows[t]] /\ rows[t] \in SUBSET People
    BY <1>2, <1>10 DEF ByRoster, TxnsOK
  <2>4. "roster" \in Hows
    BY DEF Hows
  <2> QED
    BY <1>8, <1>10, <2>1, <2>2, <2>3, <2>4 DEF ByRoster
<1>11. CASE ByContact(t)
  <2>1. Matched(t) \in SUBSET People
    BY DEF Matched, Bearers, Persons
  <2>2. Leads(t) \subseteq Persons(people)
    BY DEF TypeInv, TypeOK, AliasesEnd, Leads, Matched, Bearers, Root, Live, Persons
  <2>3. \E p \in People \cup {None}, h \in Hows :
          /\ p # None => p \in Persons(people)
          /\ pick' = [pick EXCEPT ![t] = [who |-> p, how |-> h]]
    <3>1. {"contact", "alias", "new", "twin"} \subseteq Hows
      BY DEF Hows
    <3> QED
      BY <1>11, <2>2, <3>1 DEF ByContact
  <2> QED
    BY <1>8, <1>11, <2>1, <2>3 DEF ByContact
<1>12. CASE ByChoice(t)
  <2>1. PICK p \in Live(view[t].people) \cup {None} :
          pick' = [pick EXCEPT ![t] =
                     [who |-> p, how |-> IF p = None THEN "twin" ELSE "choice"]]
    BY <1>12 DEF ByChoice
  <2>2. /\ p \in People \cup {None} /\ (p # None => p \in Persons(people))
        /\ (IF p = None THEN "twin" ELSE "choice") \in Hows
    BY <1>9, <1>12 DEF ByChoice, Live, Persons, Hows
  <2>3. rows' = [rows EXCEPT ![t] = rows[t]] /\ rows[t] \in SUBSET People
    BY <1>2, <1>12 DEF ByChoice, TxnsOK
  <2> QED
    BY <1>8, <1>12, <2>1, <2>2, <2>3 DEF ByChoice
<1>13. CASE Repeat(t)
  <2>1. PICK r \in Regs : Receive(t, r)
    BY <1>13 DEF Repeat, ActiveOf, Active, Rows
  <2>2. form[t] # None
    BY <1>2, <1>13 DEF PointsOK, Repeat
  <2> QED
    BY <1>13, <2>1, <2>2, ContactStep DEF Repeat
<1>14. CASE RepeatImport(t)
  <2>1. form[t] # None
    BY <1>2, <1>14 DEF PointsOK, RepeatImport
  <2> QED
    BY <1>14, <2>1, ContactStep DEF RepeatImport
<1>15. CASE SkipImport(t)
  <2>1. form[t] # None /\ form[t] \in Forms
    BY <1>2, <1>15 DEF TxnsOK, PointsOK, SkipImport
  <2>2. TablesOK'
    BY <1>15, <2>1, ReceiveType DEF TypeInv, TypeOK, TablesOK, SkipImport
  <2>3. TxnsOK' /\ PointsOK'
    BY <1>2, <1>15, EndFacts DEF SkipImport
  <2>4. AliasesEnd' /\ PersonsThere'
    BY <1>15 DEF TypeInv, TypeOK, SkipImport, AliasesEnd, PersonsThere, Persons, Live, Rows
  <2>5. ViewsBehind'
    BY <1>2, <1>15 DEF TypeInv, TxnsOK, SkipImport, End, ViewsBehind, Persons, Live
  <2> QED
    BY <2>2, <2>3, <2>4, <2>5 DEF TypeInv, TypeOK
<1>16. CASE Register(t)
  BY <1>16, RegisterStep
<1> QED
  BY <1>3, <1>4, <1>5, <1>6, <1>7, <1>10, <1>11, <1>12, <1>13, <1>14, <1>15, <1>16 DEF Request

LEMMA TypeStep == TypeInv /\ [Next]_vars => TypeInv'
<1> SUFFICES ASSUME TypeInv, [Next]_vars PROVE TypeInv'
  OBVIOUS
<1>1. ASSUME NEW t \in Txns, Request(t) PROVE TypeInv'
  BY <1>1, RequestStep
<1>2. ASSUME NEW r \in Regs, Annul(r) PROVE TypeInv'
  BY <1>2, AnnulStep
<1>3. ASSUME NEW target \in People, NEW source \in People, MergePeople(target, source)
      PROVE  TypeInv'
  BY <1>3, MergeStep
<1>4. ASSUME NEW pl \in Places, NEW c \in 1..MaxCapacity, SetCapacity(pl, c) PROVE TypeInv'
  BY <1>4, CapacityStep
<1>5. CASE UNCHANGED vars
  <2>1. UNCHANGED dbVars /\ TxnsOK' /\ PointsOK'
    BY <1>5 DEF TypeInv, TypeOK, TxnsOK, PointsOK, vars, dbVars, txnVars, IsImport
  <2> QED
    BY <1>5, <2>1, ReadOnlyStep DEF vars, txnVars
<1> QED
  BY <1>1, <1>2, <1>3, <1>4, <1>5 DEF Next

\* Every table and every transaction keeps its type, an alias leads to a
\* primary in one step however Persons are merged, and no snapshot holds a
\* Person who is gone.
THEOREM TypeCorrect == Spec => []TypeOK
<1>1. TypeInv => TypeOK
  BY DEF TypeInv
<1> QED
  BY <1>1, TypeInit, TypeStep, PTL DEF Spec

-----------------------------------------------------------------------------
(* What a step does to the active registrations. *)

LEMMA RegsStep ==
  ASSUME [Next]_vars
  PROVE  \/ UNCHANGED regs
         \/ \E t \in Txns : Register(t)
         \/ \E r \in Regs : Annul(r)
         \/ \E target, source \in People : MergePeople(target, source)
BY DEF Next, Request, vars, dbVars, Begin, OpenImport, LockEvent, TakeKeys, Replay, ByRoster,
   ByContact, ByChoice, Repeat, RepeatImport, SkipImport, Rollback, SetCapacity

LEMMA RegisteredActive ==
  ASSUME TypeInv, NEW t \in Txns, NEW r \in Regs \ Rows(regs), NEW p \in People,
         Registered(t, r, p)
  PROVE  /\ r \in Rows(regs') /\ regs'[r] = NewRow(t, p)
         /\ \A s \in Rows(regs) : s \in Rows(regs') /\ regs'[s] = regs[s]
         /\ \A s \in Rows(regs') : s = r \/ s \in Rows(regs)
         /\ \A e : Active(regs', e) =
                    IF EventOf[form[t].place] = e THEN Active(regs, e) \cup {r} ELSE Active(regs, e)
         /\ \A pl : ActiveAt(regs', pl) =
                    IF form[t].place = pl THEN ActiveAt(regs, pl) \cup {r} ELSE ActiveAt(regs, pl)
<1>1. NewRow(t, p).active /\ NewRow(t, p).place = form[t].place
  BY DEF NewRow
<1>2. regs \in [Regs -> RegType \cup {Absent}] /\ regs[r] = Absent
  BY DEF TypeInv, TypeOK, TablesOK, Rows
<1>3. regs'[r] = NewRow(t, p) /\ NewRow(t, p) # Absent
      /\ \A s \in Regs : s # r => regs'[s] = regs[s]
  BY <1>2 DEF Registered
<1> QED
  BY <1>1, <1>2, <1>3 DEF Rows, Active, ActiveAt

LEMMA AnnulActive ==
  ASSUME TypeInv, NEW r \in Regs, Annul(r)
  PROVE  /\ Rows(regs') = Rows(regs)
         /\ \A e : Active(regs', e) = Active(regs, e) \ {r}
         /\ \A pl : ActiveAt(regs', pl) = ActiveAt(regs, pl) \ {r}
BY AnnulFacts DEF Rows, Active, ActiveAt

LEMMA MergeActive ==
  ASSUME TypeInv, NEW target \in People, NEW source \in People, MergePeople(target, source)
  PROVE  /\ Rows(regs') = Rows(regs)
         /\ \A e : Active(regs', e) = Active(regs, e)
         /\ \A pl : ActiveAt(regs', pl) = ActiveAt(regs, pl)
<1>1. RegsMerged(target, source)
  BY MergedRegs
<1> QED
  BY <1>1 DEF RegsMerged, Rows, Active, ActiveAt

LEMMA Finite ==
  /\ \A rgs, e : IsFiniteSet(Active(rgs, e)) /\ Cardinality(Active(rgs, e)) \in Nat
  /\ \A rgs, pl : IsFiniteSet(ActiveAt(rgs, pl)) /\ Cardinality(ActiveAt(rgs, pl)) \in Nat
<1>1. \A rgs, e : Active(rgs, e) \in SUBSET Regs /\ ActiveAt(rgs, e) \in SUBSET Regs
  BY DEF Active, ActiveAt, Rows
<1> QED
  BY <1>1, FiniteAssumption, FS_Subset, FS_CardinalityType

LEMMA OneMore ==
  ASSUME NEW S, IsFiniteSet(S), NEW x
  PROVE  /\ Cardinality(S \cup {x}) \in Nat
         /\ Cardinality(S \cup {x}) <= Cardinality(S) + 1
         /\ Cardinality(S \ {x}) <= Cardinality(S)
<1>1. Cardinality(S) \in Nat
  BY FS_CardinalityType
<1>2. Cardinality(S \cup {x}) = IF x \in S THEN Cardinality(S) ELSE Cardinality(S) + 1
  BY FS_AddElement
<1>3. Cardinality(S \ {x}) = IF x \in S THEN Cardinality(S) - 1 ELSE Cardinality(S)
  BY FS_RemoveElement
<1> QED
  BY <1>1, <1>2, <1>3

LEMMA LimitStep == TypeInv /\ HardLimit /\ [Next]_vars => HardLimit'
<1> SUFFICES ASSUME TypeInv, HardLimit, [Next]_vars, NEW e \in Events
             PROVE  Cardinality(Active(regs', e)) <= Limit
  BY DEF HardLimit
<1> DEFINE active == Active(regs, e)
<1>0. /\ IsFiniteSet(active) /\ Cardinality(active) \in Nat /\ Cardinality(active) <= Limit
      /\ Limit \in Nat
  BY Finite, BoundsAssumption DEF HardLimit
<1>1. CASE UNCHANGED regs
  BY <1>0, <1>1
<1>2. ASSUME NEW t \in Txns, Register(t)
      PROVE  Cardinality(Active(regs', e)) <= Limit
  <2>1. PICK r \in Regs \ Rows(regs), p \in People : Registered(t, r, p)
    BY <1>2, RegisterFacts
  <2>2. Active(regs', e) = IF EventOf[form[t].place] = e THEN active \cup {r} ELSE active
    BY <2>1, RegisteredActive
  <2>3. EventOf[form[t].place] = e => ~(Cardinality(active) >= Limit)
    BY <1>2 DEF Register, AtLimit
  <2> HIDE DEF active
  <2>4. /\ Cardinality(active \cup {r}) \in Nat
        /\ Cardinality(active \cup {r}) <= Cardinality(active) + 1
    BY <1>0, OneMore
  <2> QED
    BY <1>0, <2>2, <2>3, <2>4
<1>3. ASSUME NEW r \in Regs, Annul(r)
      PROVE  Cardinality(Active(regs', e)) <= Limit
  <2>1. Active(regs', e) = active \ {r}
    BY <1>3, AnnulActive
  <2> HIDE DEF active
  <2>2. Cardinality(active \ {r}) <= Cardinality(active) /\ IsFiniteSet(active \ {r})
    BY <1>0, OneMore, FS_RemoveElement
  <2>3. Cardinality(active \ {r}) \in Nat
    BY <2>2, FS_CardinalityType
  <2> QED
    BY <1>0, <2>1, <2>2, <2>3
<1>4. ASSUME NEW target \in People, NEW source \in People, MergePeople(target, source)
      PROVE  Cardinality(Active(regs', e)) <= Limit
  BY <1>0, <1>4, MergeActive
<1> QED
  BY <1>1, <1>2, <1>3, <1>4, RegsStep

\* No Event ever has more active registrations than the hard limit, for any
\* number of concurrent forms, overrides and imports.
THEOREM HardLimitHolds == Spec => []HardLimit
<1>1. Init => HardLimit
  <2>1. Init => \A e : Active(regs, e) = {}
    BY DEF Init, Active, Rows
  <2> QED
    BY <2>1, FS_EmptySet, BoundsAssumption DEF HardLimit
<1> QED
  BY <1>1, LimitStep, TypeInit, TypeStep, PTL DEF Spec

-----------------------------------------------------------------------------
(* No silent twins. *)

\* The named locks exclude each other, and while they are held a Person who
\* is about to be made shares no contact with anybody who is there.
KeysDisjoint == \A t, u \in Txns : t # u => Keys(t) \cap Keys(u) = {}
NobodyBears(ids) == Bearers(people, Students(people), ids) = {}
NewPicks ==
  \A t \in Txns :
    pc[t] = "commit" /\ pick[t].who = None /\ pick[t].how # "twin" => NobodyBears(form[t].ids)
KeysInv == TypeInv /\ KeysDisjoint /\ NewPicks

LEMMA PeopleStep ==
  ASSUME [Next]_vars
  PROVE  \/ UNCHANGED people
         \/ \E t \in Txns : /\ pc[t] = "commit" /\ End(t)
                            /\ people' = Contact(t, FALSE)
         \/ \E t \in Txns : Register(t)
         \/ \E target, source \in People : MergePeople(target, source)
BY DEF Next, Request, vars, dbVars, Begin, OpenImport, LockEvent, TakeKeys, Replay, ByRoster,
   ByContact, ByChoice, Repeat, RepeatImport, SkipImport, Rollback, SetCapacity, Annul

\* Where the transactions go.
LEMMA TxnStep ==
  ASSUME TypeInv, [Next]_vars, NEW u \in Txns
  PROVE  \/ UNCHANGED <<pc[u], form[u], view[u], pick[u], rows[u]>>
         \/ pc'[u] = "idle" /\ End(u)
         \/ Begin(u) \/ OpenImport(u) \/ LockEvent(u) \/ TakeKeys(u)
         \/ ByRoster(u) \/ ByContact(u) \/ ByChoice(u)
<1>1. TxnsOK
  BY DEF TypeInv, TypeOK
<1>2. ASSUME NEW t \in Txns, Request(t)
      PROVE  \/ Begin(t) \/ OpenImport(t) \/ LockEvent(t) \/ TakeKeys(t)
             \/ ByRoster(t) \/ ByContact(t) \/ ByChoice(t) \/ End(t)
  BY <1>2 DEF Request, Replay, Repeat, RepeatImport, SkipImport, Register, Rollback
<1>3. ASSUME NEW t \in Txns, Request(t), t # u
      PROVE  UNCHANGED <<pc[u], form[u], view[u], pick[u], rows[u]>>
  BY <1>1, <1>2, <1>3 DEF TxnsOK, Begin, OpenImport, LockEvent, TakeKeys, ByRoster, ByContact,
     ByChoice, End, dbVars
<1>4. End(u) => pc'[u] = "idle"
  BY <1>1 DEF TxnsOK, End
<1>5. CASE UNCHANGED txnVars
  BY <1>5 DEF txnVars
<1>6. CASE Request(u)
  BY <1>2, <1>4, <1>6
<1> QED
  BY <1>3, <1>5, <1>6 DEF Next, vars, Annul, MergePeople, SetCapacity

LEMMA KeysStep ==
  ASSUME KeysInv, [Next]_vars
  PROVE  KeysDisjoint'
<1>1. TxnsOK
  BY DEF KeysInv, TypeInv, TypeOK
<1>2. ASSUME NEW u \in Txns
      PROVE  Keys(u)' \subseteq Keys(u) \/ TakeKeys(u)
  <2>1. CASE UNCHANGED <<pc[u], form[u], view[u], pick[u], rows[u]>>
    BY <2>1 DEF Keys
  <2>2. CASE pc'[u] = "idle"
    BY <2>2 DEF Keys
  <2>3. CASE Begin(u) \/ OpenImport(u) \/ LockEvent(u)
    BY <1>1, <2>3 DEF TxnsOK, Begin, OpenImport, LockEvent, Keys
  <2>4. CASE ByRoster(u) \/ ByContact(u) \/ ByChoice(u)
    BY <1>1, <2>4 DEF TxnsOK, ByRoster, ByContact, ByChoice, Keys
  <2> QED
    BY <2>1, <2>2, <2>3, <2>4, TxnStep DEF KeysInv
<1>3. ASSUME NEW t \in Txns, TakeKeys(t), NEW u \in Txns \ {t}
      PROVE  (Keys(t) \cap Keys(u))' = {}
  <2>1. Keys(u)' = Keys(u) /\ Keys(t)' = form[t].ids
    BY <1>1, <1>3 DEF TxnsOK, TakeKeys, Keys
  <2> QED
    BY <1>3, <2>1 DEF TakeKeys
<1> SUFFICES ASSUME NEW t \in Txns, NEW u \in Txns, t # u
             PROVE  (Keys(t) \cap Keys(u))' = {}
  BY DEF KeysDisjoint
<1>4. Keys(t) \cap Keys(u) = {}
  BY DEF KeysInv, KeysDisjoint
<1>5. CASE TakeKeys(t) \/ TakeKeys(u)
  BY <1>3, <1>5
<1>6. CASE ~TakeKeys(t) /\ ~TakeKeys(u)
  BY <1>2, <1>4, <1>6
<1> QED
  BY <1>5, <1>6

\* The roster the match reads lags behind, so it finds everybody there is.
LEMMA MatchedAll ==
  ASSUME TypeInv, NEW t \in Txns, view[t] # None
  PROVE  Bearers(people, Students(people), form[t].ids) \subseteq Matched(t)
<1> SUFFICES ASSUME NEW p \in Bearers(people, Students(people), form[t].ids)
             PROVE  Root(people, p) \notin Students(view[t].people)
  BY DEF Matched, Bearers
<1>1. Root(people, p) \in Live(people) /\ ~people[Root(people, p)].roster
  BY DEF Bearers, Root, Live, Persons, Students, TypeInv, TypeOK, AliasesEnd
<1> QED
  BY <1>1 DEF TypeInv, ViewsBehind

\* Contacts nobody bears stay so when others are written.
LEMMA NobodyWritten ==
  ASSUME TypeInv, NEW ids, NEW new, NobodyBears(ids), ids \cap new = {},
         \A q \in Persons(people) :
           /\ people'[q] # Absent /\ people'[q].alias = people[q].alias
           /\ people'[q].roster = people[q].roster
           /\ people'[q].ids \subseteq people[q].ids \cup new,
         \A q \in People : people[q] = Absent /\ people'[q] # Absent => people'[q].ids = new
  PROVE  NobodyBears(ids)'
<1> SUFFICES ASSUME NEW q \in Persons(people'), people'[q].ids \cap ids # {},
                    Root(people', q) \notin Students(people')
             PROVE  FALSE
  BY DEF NobodyBears, Bearers
<1>1. q \in Persons(people) /\ people[q].ids \cap ids # {}
  BY DEF Persons
<1>2. Root(people', q) = Root(people, q) /\ Root(people, q) \in Persons(people)
  BY <1>1 DEF Root, TypeInv, TypeOK, AliasesEnd, Live
<1>3. Root(people, q) \notin Students(people)
  BY <1>2 DEF Students, Persons
<1> QED
  BY <1>1, <1>3 DEF NobodyBears, Bearers

\* They stay so in a merge: its roster row goes to the primary.
LEMMA NobodyMerged ==
  ASSUME TypeInv, NEW ids, NobodyBears(ids),
         NEW target \in People, NEW source \in People, MergePeople(target, source)
  PROVE  NobodyBears(ids)'
<1>1. PeopleMerged(target, source)
  BY MergeFacts
<1>2. /\ target \in Live(people) /\ source \in Live(people) /\ target # source
      /\ target \in Persons(people) /\ source \in Persons(people)
      /\ people[target].alias = None /\ people[source].alias = None
  BY <1>1 DEF PeopleMerged, Live
<1>3. Persons(people') = Persons(people)
  BY <1>1 DEF PeopleMerged, Persons
<1> SUFFICES ASSUME NEW q \in Persons(people), people'[q].ids \cap ids # {},
                    Root(people', q) \notin Students(people')
             PROVE  FALSE
  BY <1>3 DEF NobodyBears, Bearers
<1>4. people[q].ids \cap ids # {}
  BY <1>1 DEF PeopleMerged
<1>5. Root(people, q) \in Students(people)
  BY <1>4 DEF NobodyBears, Bearers
<1>6. CASE Root(people, q) \in {target, source}
  <2>1. Root(people', q) = target
    BY <1>1, <1>2, <1>6, PeopleAssumption DEF PeopleMerged, Root
  <2>2. people'[target].roster
    BY <1>1, <1>5, <1>6 DEF PeopleMerged, Students
  <2> QED
    BY <1>2, <1>3, <2>1, <2>2 DEF Students
<1>7. CASE Root(people, q) \notin {target, source}
  <2>1. Root(people', q) = Root(people, q)
    BY <1>1, <1>2, <1>7, PeopleAssumption DEF PeopleMerged, Root
  <2>2. people'[Root(people, q)].roster = people[Root(people, q)].roster
    BY <1>1, <1>5, <1>7 DEF PeopleMerged, Students
  <2> QED
    BY <1>3, <1>5, <2>1, <2>2 DEF Students
<1> QED
  BY <1>6, <1>7

\* What nobody bears outlives every step of the other transactions.
LEMMA NobodyStep ==
  ASSUME KeysInv, [Next]_vars, NEW u \in Txns, pc[u] = "commit", ~End(u),
         NobodyBears(form[u].ids)
  PROVE  NobodyBears(form[u].ids)'
<1>1. form'[u] = form[u]
  <2>1. CASE Begin(u) \/ OpenImport(u) \/ LockEvent(u) \/ TakeKeys(u) \/ ByRoster(u)
             \/ ByContact(u) \/ ByChoice(u)
    BY <2>1 DEF Begin, OpenImport, LockEvent, TakeKeys, ByRoster, ByContact, ByChoice
  <2> QED
    BY <2>1, TxnStep DEF KeysInv
<1>2. ASSUME NEW t \in Txns, pc[t] = "commit", t # u
      PROVE  form[u].ids \cap form[t].ids = {} /\ form[t] # None
  BY <1>2 DEF KeysInv, KeysDisjoint, Keys, TypeInv, TypeOK, PointsOK
<1>3. CASE UNCHANGED people
  <2>1. Bearers(people', Students(people'), form[u].ids) = {}
    BY <1>3 DEF NobodyBears
  <2> QED
    BY <1>1, <2>1 DEF NobodyBears
<1>4. ASSUME NEW t \in Txns, pc[t] = "commit", End(t), people' = Contact(t, FALSE)
      PROVE  NobodyBears(form[u].ids)'
  <2>1. form[u].ids \cap form[t].ids = {} /\ form[t] # None
    BY <1>2, <1>4
  <2>2. /\ SamePeople(people')
        /\ \A p \in Persons(people) : people'[p].ids \subseteq people[p].ids \cup form[t].ids
    BY <1>4, <2>1, ContactFacts DEF KeysInv, TypeInv
  <2>3. /\ \A q \in Persons(people) :
             /\ people'[q] # Absent /\ people'[q].alias = people[q].alias
             /\ people'[q].roster = people[q].roster
             /\ people'[q].ids \subseteq people[q].ids \cup form[t].ids
        /\ \A q \in People : people[q] = Absent /\ people'[q] # Absent =>
             people'[q].ids = form[t].ids
    BY <2>2 DEF SamePeople, Persons
  <2> DEFINE mine == form[u].ids
             others == form[t].ids
  <2>4. TypeInv /\ NobodyBears(mine) /\ mine \cap others = {}
    BY <2>1 DEF KeysInv
  <2>5. form'[u].ids = mine
    BY <1>1
  <2>6. Bearers(people', Students(people'), mine) = {}
    <3> HIDE DEF mine
    <3> QED
      BY <2>3, <2>4, NobodyWritten DEF NobodyBears
  <2> QED
    BY <2>5, <2>6 DEF NobodyBears
<1>5. ASSUME NEW t \in Txns, Register(t)
      PROVE  NobodyBears(form[u].ids)'
  <2>1. PICK r \in Regs \ Rows(regs), p \in People : Registered(t, r, p)
    BY <1>5, RegisterFacts DEF KeysInv
  <2>2. form[u].ids \cap form[t].ids = {}
    BY <1>2, <2>1 DEF Registered
  <2> DEFINE mine == form[u].ids
             others == form[t].ids
  <2>3. TypeInv /\ NobodyBears(mine) /\ mine \cap others = {}
    BY <2>2 DEF KeysInv
  <2>4. form'[u].ids = mine
    BY <1>1
  <2>5. /\ \A q \in Persons(people) :
             /\ people'[q] # Absent /\ people'[q].alias = people[q].alias
             /\ people'[q].roster = people[q].roster
             /\ people'[q].ids \subseteq people[q].ids \cup others
        /\ \A q \in People : people[q] = Absent /\ people'[q] # Absent => people'[q].ids = others
    BY <2>1 DEF Registered
  <2>6. Bearers(people', Students(people'), mine) = {}
    <3> HIDE DEF mine, others
    <3> QED
      BY <2>3, <2>5, NobodyWritten DEF NobodyBears
  <2> QED
    BY <2>4, <2>6 DEF NobodyBears
<1>6. ASSUME NEW target \in People, NEW source \in People, MergePeople(target, source)
      PROVE  NobodyBears(form[u].ids)'
  <2> DEFINE mine == form[u].ids
  <2>1. TypeInv /\ NobodyBears(mine) /\ form'[u].ids = mine
    BY <1>1 DEF KeysInv
  <2>2. Bearers(people', Students(people'), mine) = {}
    <3> HIDE DEF mine
    <3> QED
      BY <1>6, <2>1, NobodyMerged DEF NobodyBears
  <2> QED
    BY <2>1, <2>2 DEF NobodyBears
<1> QED
  BY <1>3, <1>4, <1>5, <1>6, PeopleStep

LEMMA PicksStep ==
  ASSUME KeysInv, [Next]_vars
  PROVE  NewPicks'
<1> SUFFICES ASSUME NEW u \in Txns, pc'[u] = "commit", pick'[u].who = None,
                    pick'[u].how # "twin"
             PROVE  NobodyBears(form[u].ids)'
  BY DEF NewPicks
<1>1. TxnsOK /\ PointsOK /\ None \notin People
  BY PeopleAssumption DEF KeysInv, TypeInv, TypeOK
<1>2. ~End(u)
  BY <1>1 DEF TxnsOK, End
<1>3. CASE UNCHANGED <<pc[u], form[u], view[u], pick[u], rows[u]>>
  <2>1. pc[u] = "commit" /\ NobodyBears(form[u].ids)
    BY <1>3 DEF KeysInv, NewPicks
  <2> QED
    BY <1>2, <2>1, NobodyStep
<1>4. CASE ByContact(u)
  <2>1. Leads(u) = {} /\ view[u] # None /\ form' = form /\ people' = people
    BY <1>1, <1>4 DEF TxnsOK, PointsOK, ByContact, dbVars
  <2>2. Bearers(people, Students(people), form[u].ids) = {}
    BY <2>1, MatchedAll DEF Leads, KeysInv
  <2> QED
    BY <2>1, <2>2 DEF NobodyBears, Bearers, Persons, Root, Students
<1>5. ~(ByRoster(u) \/ ByChoice(u))
  BY <1>1 DEF TxnsOK, ByRoster, ByChoice
<1>6. ~(Begin(u) \/ OpenImport(u) \/ LockEvent(u) \/ TakeKeys(u))
  BY <1>1 DEF TxnsOK, Begin, OpenImport, LockEvent, TakeKeys
<1> QED
  BY <1>2, <1>3, <1>4, <1>5, <1>6, TxnStep DEF KeysInv

\* A Person made without the mark for a review shares no contact with anybody
\* there: the named locks held from the match to the commit see to it, also
\* between different Events.
THEOREM NoSilentTwinHolds == Spec => NoSilentTwin
<1>1. Init => KeysInv
  <2>1. Init => KeysDisjoint /\ NewPicks
    BY DEF Init, KeysDisjoint, NewPicks, Keys
  <2> QED
    BY <2>1, TypeInit DEF KeysInv
<1>2. KeysInv /\ [Next]_vars => KeysInv'
  BY KeysStep, PicksStep, TypeStep DEF KeysInv
<1>3. ASSUME KeysInv, [Next]_vars, NEW p \in People,
             people[p] = Absent, people'[p] # Absent, ~people'[p].review
      PROVE  Bearers(people, Students(people), people'[p].ids) = {}
  <2>1. \A ppl : SamePeople(ppl) => ppl[p] = Absent
    BY <1>3 DEF SamePeople
  <2>2. ASSUME NEW t \in Txns, pc[t] = "commit", people' = Contact(t, FALSE)
        PROVE  FALSE
    BY <1>3, <2>1, <2>2, ContactFacts DEF KeysInv, TypeInv, TypeOK, PointsOK
  <2>3. ASSUME NEW target \in People, NEW source \in People, MergePeople(target, source)
        PROVE  FALSE
    BY <1>3, <2>3, MergeFacts DEF KeysInv, PeopleMerged
  <2>4. PICK t \in Txns : Register(t)
    BY <1>3, <2>2, <2>3, PeopleStep
  <2>5. PICK r \in Regs \ Rows(regs), q \in People : Registered(t, r, q)
    BY <1>3, <2>4, RegisterFacts DEF KeysInv
  <2>6. /\ pc[t] = "commit" /\ pick[t].who = None /\ people'[p].ids = form[t].ids
        /\ pick[t].how # "twin"
    BY <1>3, <2>5 DEF Registered
  <2> QED
    BY <1>3, <2>6 DEF KeysInv, NewPicks, NobodyBears
<1>4. KeysInv /\ [Next]_vars =>
        [\A p \in People :
           people[p] = Absent /\ people'[p] # Absent /\ ~people'[p].review
           => Bearers(people, Students(people), people'[p].ids) = {}]_vars
  BY <1>3
<1> QED
  BY <1>1, <1>2, <1>4, PTL DEF Spec, NoSilentTwin

-----------------------------------------------------------------------------
(* The forms keep the capacities. *)

\* One transaction at a time holds an Event, and a form's snapshot, taken with
\* the Event's lock, shows the seats of the Event as they are until its end.
Exclusive == \A t, u \in Txns : t # u => \A e \in Events : ~Holds(t, e) \/ ~Holds(u, e)
SeatsAsSeen(t) ==
  \A pl \in Places :
    EventOf[pl] = EventOf[form[t].place] =>
      /\ ActiveAt(view[t].regs, pl) = ActiveAt(regs, pl)
      /\ view[t].capacity[pl] = capacity[pl]
SeatsSeen ==
  \A t \in Txns :
    pc[t] \in {"keys", "resolve", "commit"} /\ ~IsImport(t) => SeatsAsSeen(t)
SeatsInv == TypeInv /\ Exclusive /\ SeatsSeen

LEMMA EventOfForm ==
  ASSUME TypeInv, NEW t \in Txns, pc[t] # "idle"
  PROVE  form[t] \in Forms /\ form[t].place \in Places /\ EventOf[form[t].place] \in Events
BY FormsAssumption, PlacesAssumption DEF TypeInv, TypeOK, TxnsOK, PointsOK, FormType

LEMMA ExclusiveStep ==
  ASSUME SeatsInv, [Next]_vars
  PROVE  Exclusive'
<1>1. TxnsOK
  BY DEF SeatsInv, TypeInv, TypeOK
<1>2. ASSUME NEW u \in Txns, ~LockEvent(u), NEW e \in Events, Holds(u, e)'
      PROVE  Holds(u, e)
  <2>1. CASE UNCHANGED <<pc[u], form[u], view[u], pick[u], rows[u]>>
    BY <1>2, <2>1 DEF Holds
  <2>2. pc'[u] # "idle"
    BY <1>2 DEF Holds
  <2>3. ~(Begin(u) \/ OpenImport(u))
    BY <1>1, <1>2 DEF TxnsOK, Begin, OpenImport, Holds
  <2>4. CASE TakeKeys(u) \/ ByRoster(u) \/ ByContact(u) \/ ByChoice(u)
    BY <1>1, <1>2, <2>4 DEF TxnsOK, TakeKeys, ByRoster, ByContact, ByChoice, Holds
  <2> QED
    BY <1>2, <2>1, <2>2, <2>3, <2>4, TxnStep DEF SeatsInv
<1>3. ASSUME NEW t \in Txns, LockEvent(t), NEW u \in Txns \ {t}, NEW e \in Events,
             Holds(t, e)', Holds(u, e)'
      PROVE  FALSE
  <2>1. Holds(u, e) /\ EventOf[form[t].place] = e
    BY <1>1, <1>3 DEF TxnsOK, LockEvent, Holds
  <2> QED
    BY <1>3, <2>1 DEF LockEvent, EventFree
<1> SUFFICES ASSUME NEW t \in Txns, NEW u \in Txns, t # u, NEW e \in Events,
                    Holds(t, e)', Holds(u, e)'
             PROVE  FALSE
  BY DEF Exclusive
<1>4. CASE LockEvent(t) \/ LockEvent(u)
  BY <1>3, <1>4
<1>5. CASE ~LockEvent(t) /\ ~LockEvent(u)
  <2>1. Holds(t, e) /\ Holds(u, e)
    BY <1>2, <1>5
  <2> QED
    BY <2>1 DEF SeatsInv, Exclusive
<1> QED
  BY <1>4, <1>5

\* While u holds an Event, the others leave its seats alone.
LEMMA SeatsKept ==
  ASSUME SeatsInv, [Next]_vars, NEW u \in Txns, NEW pl \in Places,
         Holds(u, EventOf[pl]), ~End(u)
  PROVE  ActiveAt(regs', pl) = ActiveAt(regs, pl) /\ capacity'[pl] = capacity[pl]
<1>1. TypeInv /\ EventOf[pl] \in Events
  BY PlacesAssumption DEF SeatsInv
<1>2. capacity'[pl] = capacity[pl]
  <2>1. UNCHANGED capacity \/ \E other \in Places, c \in 1..MaxCapacity : SetCapacity(other, c)
    BY DEF Next, Request, vars, dbVars, Begin, OpenImport, LockEvent, TakeKeys, Replay, ByRoster,
       ByContact, ByChoice, Repeat, RepeatImport, SkipImport, Register, Rollback, Annul, MergePeople
  <2>2. ASSUME NEW other \in Places, NEW c \in 1..MaxCapacity, SetCapacity(other, c)
        PROVE  capacity'[pl] = capacity[pl]
    <3>1. other # pl /\ capacity' = [capacity EXCEPT ![other] = c]
      BY <2>2 DEF SetCapacity, EventFree
    <3> QED
      BY <1>1, <3>1 DEF TypeInv, TypeOK, TablesOK
  <2> QED
    BY <2>1, <2>2
<1>3. CASE UNCHANGED regs
  BY <1>2, <1>3
<1>4. ASSUME NEW t \in Txns, Register(t)
      PROVE  ActiveAt(regs', pl) = ActiveAt(regs, pl)
  <2>1. PICK r \in Regs \ Rows(regs), p \in People : Registered(t, r, p)
    BY <1>1, <1>4, RegisterFacts
  <2>2. t # u /\ pc[t] = "commit"
    BY <2>1 DEF Registered
  <2>3. EventOf[form[t].place] # EventOf[pl]
    BY <1>1, <2>2 DEF SeatsInv, Exclusive, Holds
  <2> QED
    BY <1>1, <2>1, <2>3, RegisteredActive
<1>5. ASSUME NEW r \in Regs, Annul(r)
      PROVE  ActiveAt(regs', pl) = ActiveAt(regs, pl)
  <2>1. ActiveAt(regs', pl) = ActiveAt(regs, pl) \ {r}
    BY <1>1, <1>5, AnnulActive
  <2>2. regs[r].place # pl
    BY <1>5 DEF Annul, EventFree
  <2> QED
    BY <2>1, <2>2 DEF ActiveAt
<1>6. ASSUME NEW target \in People, NEW source \in People, MergePeople(target, source)
      PROVE  ActiveAt(regs', pl) = ActiveAt(regs, pl)
  BY <1>1, <1>6, MergeActive
<1> QED
  BY <1>2, <1>3, <1>4, <1>5, <1>6, RegsStep

LEMMA SeatsStep ==
  ASSUME SeatsInv, [Next]_vars
  PROVE  SeatsSeen'
<1>1. TypeInv /\ TxnsOK /\ PointsOK
  BY DEF SeatsInv, TypeInv, TypeOK
<1> SUFFICES ASSUME NEW u \in Txns, pc'[u] \in {"keys", "resolve", "commit"},
                    form'[u].source # "EXCEL_IMPORT",
                    NEW pl \in Places, EventOf[pl] = EventOf[form'[u].place]
             PROVE  /\ ActiveAt(view'[u].regs, pl) = ActiveAt(regs', pl)
                    /\ view'[u].capacity[pl] = capacity'[pl]
  BY DEF SeatsSeen, SeatsAsSeen, IsImport
<1>2. ~End(u)
  BY <1>1 DEF TxnsOK, End
<1>3. ~(Begin(u) \/ OpenImport(u))
  BY <1>1 DEF TxnsOK, Begin, OpenImport
<1>4. CASE LockEvent(u)
  <2>1. form' = form /\ ~IsImport(u) /\ view'[u] = Snapshot /\ UNCHANGED dbVars
    BY <1>1, <1>4 DEF TxnsOK, LockEvent, IsImport
  <2> QED
    BY <2>1 DEF Snapshot, dbVars
<1>5. CASE \/ UNCHANGED <<pc[u], form[u], view[u], pick[u], rows[u]>>
           \/ TakeKeys(u) \/ ByRoster(u) \/ ByContact(u) \/ ByChoice(u)
  <2>1. /\ pc[u] \in {"keys", "resolve", "commit"}
        /\ form'[u] = form[u] /\ view'[u] = view[u]
    BY <1>1, <1>5 DEF TxnsOK, TakeKeys, ByRoster, ByContact, ByChoice
  <2>2. Holds(u, EventOf[pl]) /\ ~IsImport(u)
    BY <2>1 DEF Holds, IsImport
  <2>3. ActiveAt(regs', pl) = ActiveAt(regs, pl) /\ capacity'[pl] = capacity[pl]
    BY <1>2, <2>2, SeatsKept
  <2> QED
    BY <2>1, <2>2, <2>3 DEF SeatsInv, SeatsSeen, SeatsAsSeen
<1> QED
  BY <1>1, <1>2, <1>3, <1>4, <1>5, TxnStep

\* A form sent without the override takes no place beyond the capacity, for
\* any number of forms, imports and administrators beside it.
THEOREM FormsKeepCapacityHolds == Spec => FormsKeepCapacity
<1>1. Init => SeatsInv
  <2>1. Init => Exclusive /\ SeatsSeen
    BY DEF Init, Exclusive, SeatsSeen, Holds
  <2> QED
    BY <2>1, TypeInit DEF SeatsInv
<1>2. SeatsInv /\ [Next]_vars => SeatsInv'
  BY ExclusiveStep, SeatsStep, TypeStep DEF SeatsInv
<1>3. ASSUME SeatsInv, [Next]_vars, NEW r \in Regs, Fresh(r),
             regs'[r].form.source \in {"PUBLIC_FORM", "ONSITE"}, ~regs'[r].form.override
      PROVE  Cardinality(ActiveAt(regs', regs'[r].place)) <= capacity[regs'[r].place]
  <2>1. TypeInv
    BY <1>3 DEF SeatsInv
  <2>2. ASSUME NEW s \in Regs, Annul(s) PROVE FALSE
    BY <1>3, <2>1, <2>2, AnnulActive DEF Fresh, Rows
  <2>3. ASSUME NEW target \in People, NEW source \in People, MergePeople(target, source)
        PROVE  FALSE
    BY <1>3, <2>1, <2>3, MergeActive DEF Fresh, Rows
  <2>4. PICK t \in Txns : Register(t)
    BY <1>3, <2>2, <2>3, RegsStep DEF Fresh
  <2>5. PICK s \in Regs \ Rows(regs), p \in People : Registered(t, s, p)
    BY <2>1, <2>4, RegisterFacts
  <2>6. r = s
    BY <1>3, <2>1, <2>5, RegisteredActive DEF Fresh, Rows
  <2> DEFINE pl == form[t].place
  <2>7. regs'[r].form = form[t] /\ regs'[r].place = pl
    <3>1. regs'[s] = NewRow(t, p)
      BY <2>1, <2>5, RegisteredActive
    <3> QED
      BY <2>6, <3>1 DEF NewRow
  <2>8. pc[t] = "commit" /\ pl \in Places /\ ~IsImport(t) /\ ~form[t].override
    BY <1>3, <2>1, <2>5, <2>7, EventOfForm DEF Registered, IsImport
  <2>9. /\ ActiveAt(view[t].regs, pl) = ActiveAt(regs, pl)
        /\ view[t].capacity[pl] = capacity[pl]
    BY <1>3, <2>8 DEF SeatsInv, SeatsSeen, SeatsAsSeen
  <2>10. ~(Cardinality(ActiveAt(regs, pl)) >= capacity[pl])
    BY <2>4, <2>8, <2>9 DEF Register, Full
  <2>11. capacity[pl] \in Nat
    BY <2>1, <2>8, BoundsAssumption DEF TypeInv, TypeOK, TablesOK
  <2>12. ActiveAt(regs', pl) = ActiveAt(regs, pl) \cup {r}
    BY <2>1, <2>5, <2>6, RegisteredActive
  <2> DEFINE seated == ActiveAt(regs, pl)
  <2>13. IsFiniteSet(seated) /\ Cardinality(seated) \in Nat
    BY Finite
  <2>14. /\ Cardinality(seated \cup {r}) \in Nat
         /\ Cardinality(seated \cup {r}) <= Cardinality(seated) + 1
    <3> HIDE DEF seated
    <3> QED
      BY <2>13, OneMore
  <2> QED
    BY <2>7, <2>10, <2>11, <2>12, <2>13, <2>14
<1>4. SeatsInv /\ [Next]_vars => [KeepsCapacity({"PUBLIC_FORM", "ONSITE"})]_vars
  BY <1>3 DEF KeepsCapacity
<1> QED
  BY <1>1, <1>2, <1>4, PTL DEF Spec, FormsKeepCapacity

-----------------------------------------------------------------------------
(* One registration per request. *)

\* A registration leaves its receipt; while the Event is held the snapshot
\* shows the request's receipt if there is one, and an import holds its job.
ReceiptsKept ==
  \A r \in Rows(regs) : regs[r].form.request # None => Received(receipts, regs[r].form)
ReceiptsSeen ==
  \A t \in Txns :
    /\ pc[t] \in {"keys", "resolve", "commit"} /\ ~IsImport(t)
    /\ Received(receipts, form[t])
    => Received(view[t].receipts, form[t])
FirstTime ==
  \A t \in Txns :
    pc[t] = "commit" /\ ~IsImport(t) /\ form[t].request # None => ~Received(receipts, form[t])
JobsHeld ==
  \A t \in Txns :
    pc[t] # "idle" /\ IsImport(t) =>
      /\ ~Received(receipts, form[t])
      /\ \A u \in Txns \ {t} : pc[u] # "idle" => Receipt(form[u]) # Receipt(form[t])
RequestInv ==
  SeatsInv /\ ReceiptsKept /\ ReceiptsSeen /\ FirstTime /\ JobsHeld /\ OneRegistrationPerRequest

LEMMA ReceiptStep ==
  ASSUME [Next]_vars
  PROVE  \/ UNCHANGED receipts
         \/ \E t \in Txns : /\ pc[t] \in {"keys", "commit"} /\ End(t)
                            /\ \E r : Receive(t, r)
BY DEF Next, Request, vars, dbVars, Begin, OpenImport, LockEvent, TakeKeys, Replay, ByRoster,
   ByContact, ByChoice, Repeat, RepeatImport, SkipImport, Register, Rollback, Annul, MergePeople,
   SetCapacity

\* Nobody else leaves the receipt of a request while it is served.
LEMMA OthersReceipts ==
  ASSUME RequestInv, [Next]_vars, NEW u \in Txns, ~End(u),
         \/ pc[u] \in {"keys", "resolve", "commit"}
         \/ pc[u] # "idle" /\ IsImport(u),
         Received(receipts', form[u])
  PROVE  Received(receipts, form[u])
<1>1. CASE UNCHANGED receipts
  BY <1>1
<1>2. ASSUME NEW t \in Txns, pc[t] \in {"keys", "commit"}, End(t), NEW r, Receive(t, r)
      PROVE  Received(receipts, form[u])
  <2>1. t # u
    BY <1>2
  <2>2. Received(receipts, form[u]) \/ Receipt(form[t]) = Receipt(form[u])
    BY <1>2 DEF Receive, Received
  <2>3. CASE pc[u] \in {"keys", "resolve", "commit"}
    <3>1. EventOf[form[u].place] \in Events
      BY <2>3, EventOfForm DEF RequestInv, SeatsInv
    <3>2. Holds(u, EventOf[form[u].place]) /\ Holds(t, EventOf[form[t].place])
      BY <1>2, <2>3 DEF Holds
    <3>3. EventOf[form[t].place] # EventOf[form[u].place]
      BY <2>1, <3>1, <3>2 DEF RequestInv, SeatsInv, Exclusive
    <3> QED
      BY <2>2, <3>3 DEF Receipt
  <2>4. CASE pc[u] # "idle" /\ IsImport(u)
    BY <1>2, <2>1, <2>2, <2>4 DEF RequestInv, JobsHeld
  <2> QED
    BY <2>3, <2>4
<1> QED
  BY <1>1, <1>2, ReceiptStep

LEMMA ReceiptsKeptStep ==
  ASSUME RequestInv, [Next]_vars
  PROVE  ReceiptsKept'
<1>1. TypeInv
  BY DEF RequestInv, SeatsInv
<1>2. receipts \subseteq receipts'
  BY ReceiptStep DEF Receive
<1>3. \A f : Received(receipts, f) => Received(receipts', f)
  BY <1>2 DEF Received
<1>4. CASE UNCHANGED regs
  BY <1>3, <1>4 DEF RequestInv, ReceiptsKept, Rows
<1>5. ASSUME NEW t \in Txns, Register(t)
      PROVE  ReceiptsKept'
  <2>1. PICK r \in Regs \ Rows(regs), p \in People : Registered(t, r, p)
    BY <1>1, <1>5, RegisterFacts
  <2>2. /\ regs'[r] = NewRow(t, p)
        /\ \A s \in Rows(regs) : regs'[s] = regs[s]
        /\ \A s \in Rows(regs') : s = r \/ s \in Rows(regs)
    BY <1>1, <2>1, RegisteredActive
  <2>3. regs'[r].form = form[t]
    BY <2>2 DEF NewRow
  <2>4. form[t].request # None => Received(receipts', form[t])
    <3> DEFINE x == [key |-> Receipt(form[t]), reg |-> r]
    <3>1. form[t].request # None => x \in receipts'
      BY <2>1 DEF Registered, Receive
    <3>2. x.key = Receipt(form[t])
      OBVIOUS
    <3> QED
      BY <3>1, <3>2 DEF Received
  <2>5. ASSUME NEW s \in Rows(regs'), regs'[s].form.request # None
        PROVE  Received(receipts', regs'[s].form)
    BY <1>3, <2>2, <2>3, <2>4, <2>5 DEF RequestInv, ReceiptsKept
  <2> QED
    BY <2>5 DEF ReceiptsKept
<1>6. ASSUME NEW r \in Regs, Annul(r)
      PROVE  ReceiptsKept'
  <2>1. \A s \in Rows(regs') : s \in Rows(regs) /\ regs'[s].form = regs[s].form
    BY <1>1, <1>6, AnnulFacts, AnnulActive DEF Rows
  <2> QED
    BY <1>3, <2>1 DEF RequestInv, ReceiptsKept
<1>7. ASSUME NEW target \in People, NEW source \in People, MergePeople(target, source)
      PROVE  ReceiptsKept'
  <2>1. RegsMerged(target, source)
    BY <1>1, <1>7, MergedRegs
  <2>2. \A s \in Rows(regs') : s \in Rows(regs) /\ regs'[s].form = regs[s].form
    BY <2>1 DEF RegsMerged, Rows
  <2> QED
    BY <1>3, <2>2 DEF RequestInv, ReceiptsKept
<1> QED
  BY <1>4, <1>5, <1>6, <1>7, RegsStep

LEMMA ServingStep ==
  ASSUME RequestInv, [Next]_vars
  PROVE  ReceiptsSeen' /\ FirstTime' /\ JobsHeld'
<1>1. TypeInv /\ TxnsOK /\ PointsOK
  BY DEF RequestInv, SeatsInv, TypeInv, TypeOK
<1>2. ASSUME NEW u \in Txns, pc'[u] # "idle"
      PROVE  ~End(u)
  BY <1>1, <1>2 DEF TxnsOK, End
<1>3. ReceiptsSeen'
  <2> SUFFICES ASSUME NEW u \in Txns, pc'[u] \in {"keys", "resolve", "commit"},
                      form'[u].source # "EXCEL_IMPORT", Received(receipts', form'[u])
               PROVE  Received(view'[u].receipts, form'[u])
    BY DEF ReceiptsSeen, IsImport
  <2>1. ~(Begin(u) \/ OpenImport(u))
    BY <1>1 DEF TxnsOK, Begin, OpenImport
  <2>2. CASE LockEvent(u)
    <3>1. form' = form /\ ~IsImport(u) /\ view'[u] = Snapshot /\ UNCHANGED dbVars
      BY <1>1, <2>2 DEF TxnsOK, LockEvent, IsImport
    <3> QED
      BY <3>1 DEF Snapshot, dbVars
  <2>3. CASE \/ UNCHANGED <<pc[u], form[u], view[u], pick[u], rows[u]>>
             \/ TakeKeys(u) \/ ByRoster(u) \/ ByContact(u) \/ ByChoice(u)
    <3>1. /\ pc[u] \in {"keys", "resolve", "commit"}
          /\ form'[u] = form[u] /\ view'[u] = view[u]
      BY <1>1, <2>3 DEF TxnsOK, TakeKeys, ByRoster, ByContact, ByChoice
    <3>2. Received(receipts, form[u]) /\ ~IsImport(u)
      BY <1>2, <3>1, OthersReceipts DEF IsImport
    <3> QED
      BY <3>1, <3>2 DEF RequestInv, ReceiptsSeen
  <2> QED
    BY <1>1, <1>2, <2>1, <2>2, <2>3, TxnStep
<1>4. FirstTime'
  <2> SUFFICES ASSUME NEW u \in Txns, pc'[u] = "commit",
                      form'[u].source # "EXCEL_IMPORT", form'[u].request # None,
                      Received(receipts', form'[u])
               PROVE  FALSE
    BY DEF FirstTime, IsImport
  <2>1. ~(Begin(u) \/ OpenImport(u) \/ LockEvent(u) \/ TakeKeys(u))
    BY <1>1 DEF TxnsOK, Begin, OpenImport, LockEvent, TakeKeys
  <2>2. CASE ByRoster(u) \/ ByContact(u) \/ ByChoice(u)
    <3>1. /\ pc[u] = "resolve" /\ form'[u] = form[u] /\ ~IsImport(u) /\ receipts' = receipts
      BY <1>1, <2>2 DEF TxnsOK, ByRoster, ByContact, ByChoice, IsImport, dbVars
    <3>2. ~Received(view[u].receipts, form[u])
      BY <2>2, <3>1 DEF ByRoster, ByContact, ByChoice, Replayed
    <3> QED
      BY <3>1, <3>2 DEF RequestInv, ReceiptsSeen
  <2>3. CASE UNCHANGED <<pc[u], form[u], view[u], pick[u], rows[u]>>
    <3>1. pc[u] = "commit" /\ form'[u] = form[u] /\ ~IsImport(u) /\ form[u].request # None
      BY <2>3 DEF IsImport
    <3>2. Received(receipts, form[u])
      BY <1>2, <3>1, OthersReceipts
    <3> QED
      BY <3>1, <3>2 DEF RequestInv, FirstTime
  <2> QED
    BY <1>1, <1>2, <2>1, <2>2, <2>3, TxnStep
<1>5. ASSUME NEW u \in Txns, pc'[u] # "idle", form'[u].source = "EXCEL_IMPORT"
      PROVE  /\ ~Received(receipts', form'[u])
             /\ OpenImport(u) \/ (pc[u] # "idle" /\ IsImport(u) /\ form'[u] = form[u])
  <2>1. ~Begin(u)
    BY <1>1, <1>5 DEF TxnsOK, Begin
  <2>2. CASE OpenImport(u)
    <3>1. ~Received(receipts, form'[u]) /\ receipts' = receipts
      BY <1>1, <2>2 DEF TxnsOK, OpenImport, dbVars
    <3> QED
      BY <2>2, <3>1
  <2>3. CASE \/ UNCHANGED <<pc[u], form[u], view[u], pick[u], rows[u]>>
             \/ LockEvent(u) \/ TakeKeys(u) \/ ByRoster(u) \/ ByContact(u) \/ ByChoice(u)
    <3>1. pc[u] # "idle" /\ form'[u] = form[u] /\ IsImport(u)
      BY <1>1, <1>5, <2>3 DEF TxnsOK, LockEvent, TakeKeys, ByRoster, ByContact, ByChoice, IsImport
    <3>2. ~Received(receipts, form[u])
      BY <3>1 DEF RequestInv, JobsHeld
    <3> QED
      BY <1>2, <1>5, <3>1, <3>2, OthersReceipts
  <2> QED
    BY <1>1, <1>2, <1>5, <2>1, <2>2, <2>3, TxnStep
<1>6. ASSUME NEW u \in Txns, pc'[u] # "idle"
      PROVE  \/ pc[u] # "idle" /\ form'[u] = form[u]
             \/ OpenImport(u)
             \/ form'[u].source # "EXCEL_IMPORT"
  BY <1>5, <1>6
<1>7. ASSUME NEW t \in Txns, NEW u \in Txns \ {t}, pc'[t] # "idle", pc'[u] # "idle",
             form'[t].source = "EXCEL_IMPORT", Receipt(form'[u]) = Receipt(form'[t])
      PROVE  FALSE
  <2>1. form'[u].source = "EXCEL_IMPORT"
    BY <1>7 DEF Receipt
  <2>2. ASSUME NEW v \in Txns, NEW w \in Txns \ {v}, OpenImport(v), pc'[w] # "idle"
        PROVE  Receipt(form'[w]) # Receipt(form'[v])
    <3>1. pc'[w] = pc[w] /\ form'[w] = form[w] /\ form[w] # None
      BY <1>1, <2>2 DEF TxnsOK, PointsOK, OpenImport
    <3> QED
      BY <1>1, <2>2, <3>1 DEF TxnsOK, OpenImport
  <2>3. ~OpenImport(t) /\ ~OpenImport(u)
    BY <1>7, <2>2
  <2>4. /\ pc[t] # "idle" /\ IsImport(t) /\ form'[t] = form[t]
        /\ pc[u] # "idle" /\ form'[u] = form[u]
    BY <1>5, <1>7, <2>1, <2>3
  <2> QED
    BY <1>7, <2>4 DEF RequestInv, JobsHeld
<1>8. JobsHeld'
  BY <1>5, <1>7 DEF JobsHeld, IsImport
<1> QED
  BY <1>3, <1>4, <1>8

LEMMA OneRegistrationStep ==
  ASSUME RequestInv, [Next]_vars
  PROVE  OneRegistrationPerRequest'
<1>1. TypeInv
  BY DEF RequestInv, SeatsInv
<1>2. CASE UNCHANGED regs
  BY <1>2 DEF RequestInv, OneRegistrationPerRequest, Rows
<1>3. ASSUME NEW t \in Txns, Register(t)
      PROVE  OneRegistrationPerRequest'
  <2>1. PICK r \in Regs \ Rows(regs), p \in People : Registered(t, r, p)
    BY <1>1, <1>3, RegisterFacts
  <2>2. /\ regs'[r] = NewRow(t, p)
        /\ \A s \in Rows(regs) : regs'[s] = regs[s]
        /\ \A s \in Rows(regs') : s = r \/ s \in Rows(regs)
    BY <1>1, <2>1, RegisteredActive
  <2>3. regs'[r].form = form[t] /\ pc[t] = "commit"
    BY <2>1, <2>2 DEF NewRow, Registered
  <2>4. form[t].request # None => ~Received(receipts, form[t])
    BY <2>3 DEF RequestInv, FirstTime, JobsHeld
  <2>5. ASSUME NEW s \in Rows(regs), Receipt(regs[s].form) = Receipt(form[t]),
               form[t].request # None
        PROVE  FALSE
    <3>1. regs[s].form.request # None
      BY <2>5 DEF Receipt
    <3>2. Received(receipts, regs[s].form)
      BY <3>1 DEF RequestInv, ReceiptsKept
    <3> QED
      BY <2>4, <2>5, <3>2 DEF Received
  <2>6. ASSUME NEW s \in Rows(regs), Receipt(regs[s].form) = Receipt(form[t]),
               regs[s].form.request # None
        PROVE  FALSE
    BY <2>5, <2>6 DEF Receipt
  <2>7. ASSUME NEW x \in Rows(regs'), NEW y \in Rows(regs'), regs'[x].form.request # None,
               Receipt(regs'[x].form) = Receipt(regs'[y].form)
        PROVE  x = y
    <3>1. CASE x = r /\ y \in Rows(regs)
      BY <2>2, <2>3, <2>5, <2>7, <3>1
    <3>2. CASE y = r /\ x \in Rows(regs)
      BY <2>2, <2>3, <2>6, <2>7, <3>2
    <3>3. CASE x \in Rows(regs) /\ y \in Rows(regs)
      BY <2>2, <2>7, <3>3 DEF RequestInv, OneRegistrationPerRequest
    <3> QED
      BY <2>2, <3>1, <3>2, <3>3
  <2> QED
    BY <2>7 DEF OneRegistrationPerRequest
<1>4. ASSUME NEW r \in Regs, Annul(r)
      PROVE  OneRegistrationPerRequest'
  <2>1. \A s \in Rows(regs') : s \in Rows(regs) /\ regs'[s].form = regs[s].form
    BY <1>1, <1>4, AnnulFacts, AnnulActive DEF Rows
  <2> QED
    BY <2>1 DEF RequestInv, OneRegistrationPerRequest
<1>5. ASSUME NEW target \in People, NEW source \in People, MergePeople(target, source)
      PROVE  OneRegistrationPerRequest'
  <2>1. RegsMerged(target, source)
    BY <1>1, <1>5, MergedRegs
  <2>2. \A s \in Rows(regs') : s \in Rows(regs) /\ regs'[s].form = regs[s].form
    BY <2>1 DEF RegsMerged, Rows
  <2> QED
    BY <2>2 DEF RequestInv, OneRegistrationPerRequest
<1> QED
  BY <1>2, <1>3, <1>4, <1>5, RegsStep

\* A request id makes one registration at most however often and however
\* concurrently it is sent, and so does an import job.
THEOREM OneRegistrationPerRequestHolds == Spec => []OneRegistrationPerRequest
<1>1. Init => RequestInv
  <2>1. Init => /\ Exclusive /\ SeatsSeen /\ ReceiptsKept /\ ReceiptsSeen /\ FirstTime
                /\ JobsHeld /\ OneRegistrationPerRequest
    BY DEF Init, Exclusive, SeatsSeen, Holds, ReceiptsKept, ReceiptsSeen, FirstTime, JobsHeld,
       OneRegistrationPerRequest, Rows
  <2> QED
    BY <2>1, TypeInit DEF RequestInv, SeatsInv
<1>2. RequestInv /\ [Next]_vars => RequestInv'
  BY ExclusiveStep, SeatsStep, TypeStep, ReceiptsKeptStep, ServingStep, OneRegistrationStep
     DEF RequestInv, SeatsInv
<1>3. RequestInv => OneRegistrationPerRequest
  BY DEF RequestInv
<1> QED
  BY <1>1, <1>2, <1>3, PTL DEF Spec

-----------------------------------------------------------------------------
(* Nobody is registered twice. *)

\* The unique key; who was matched by his contacts stays a primary: a
\* transaction's row locks keep merges away from him until its commit.
OneActive ==
  \A e \in Events : \A r, s \in Active(regs, e) : regs[r].person = regs[s].person => r = s
MatchedLive ==
  \A r \in Rows(regs) : regs[r].how \in ByMatch => regs[r].person \in Live(people)
Held(t, p) ==
  \/ p \in rows[t]
  \/ \E q \in rows[t] \cap Persons(people) : people[q].alias = p
PicksHeld ==
  \A t \in Txns :
    pc[t] = "commit" =>
      /\ pick[t].how \in {"new", "twin"} => pick[t].who = None
      /\ pick[t].how \in {"contact", "alias"} =>
           pick[t].who \in Live(people) /\ Held(t, pick[t].who)
OnceInv == TypeInv /\ OneActive /\ MatchedLive /\ PicksHeld

LEMMA OneActiveStep ==
  ASSUME OnceInv, [Next]_vars
  PROVE  OneActive'
<1>1. TypeInv /\ regs \in [Regs -> RegType \cup {Absent}]
  BY DEF OnceInv, TypeInv, TypeOK, TablesOK
<1>2. CASE UNCHANGED regs
  BY <1>2 DEF OnceInv, OneActive, Active, Rows
<1>3. ASSUME NEW t \in Txns, Register(t)
      PROVE  OneActive'
  <2>1. PICK r \in Regs \ Rows(regs), p \in People : Registered(t, r, p)
    BY <1>1, <1>3, RegisterFacts
  <2>2. /\ regs'[r] = NewRow(t, p)
        /\ \A s \in Rows(regs) : regs'[s] = regs[s]
        /\ \A e : Active(regs', e) =
                IF EventOf[form[t].place] = e THEN Active(regs, e) \cup {r} ELSE Active(regs, e)
    BY <1>1, <2>1, RegisteredActive
  <2>3. regs'[r].person = p
    BY <2>2 DEF NewRow
  <2>4. \A s \in Active(regs, EventOf[form[t].place]) : regs[s].person # p
    <3>1. CASE pick[t].who = p
      BY <1>3, <3>1 DEF Register, ActiveOf
    <3>2. CASE people[p] = Absent
      BY <3>2 DEF OnceInv, TypeInv, TypeOK, PersonsThere, Active
    <3> QED
      BY <2>1, <3>1, <3>2 DEF Registered
  <2>5. \A e : Active(regs, e) \subseteq Rows(regs)
    BY DEF Active
  <2> QED
    BY <2>2, <2>3, <2>4, <2>5 DEF OnceInv, OneActive
<1>4. ASSUME NEW r \in Regs, Annul(r)
      PROVE  OneActive'
  <2>1. \A s \in Regs : s # r => regs'[s] = regs[s]
    BY <1>1, <1>4, AnnulFacts
  <2>2. \A e : Active(regs', e) = Active(regs, e) \ {r}
    BY <1>1, <1>4, AnnulActive
  <2>3. \A e : Active(regs, e) \subseteq Regs
    BY DEF Active, Rows
  <2> QED
    BY <2>1, <2>2, <2>3 DEF OnceInv, OneActive
<1>5. ASSUME NEW target \in People, NEW source \in People, MergePeople(target, source)
      PROVE  OneActive'
  <2>1. RegsMerged(target, source)
    BY <1>1, <1>5, MergedRegs
  <2>2. \A e : Active(regs', e) = Active(regs, e)
    BY <1>1, <1>5, MergeActive
  <2>3. \A e \in Events : \A r, s \in Active(regs, e) :
          ~(regs[r].person = target /\ regs[s].person = source)
    BY <1>5 DEF MergePeople, ActiveOf
  <2>4. ASSUME NEW e \in Events, NEW r \in Active(regs, e), NEW s \in Active(regs, e),
               regs'[r].person = regs'[s].person
        PROVE  r = s
    <3>1. /\ regs'[r].person = IF regs[r].person = source THEN target ELSE regs[r].person
          /\ regs'[s].person = IF regs[s].person = source THEN target ELSE regs[s].person
      BY <2>1 DEF RegsMerged, Active
    <3>2. regs[r].person = regs[s].person
      BY <2>3, <2>4, <3>1
    <3> QED
      BY <3>2 DEF OnceInv, OneActive
  <2> QED
    BY <2>2, <2>4 DEF OneActive
<1> QED
  BY <1>2, <1>3, <1>4, <1>5, RegsStep

\* A merge leaves the Persons alone that a transaction has matched.
LEMMA HeldMerged ==
  ASSUME OnceInv, NEW target \in People, NEW source \in People, MergePeople(target, source),
         NEW t \in Txns, NEW p \in Live(people), Held(t, p)
  PROVE  p \in Live(people') /\ Held(t, p)'
<1>1. PeopleMerged(target, source)
  BY MergeFacts DEF OnceInv
<1>2. /\ \A q \in rows[t] : q # source /\ q # target
      /\ \A q \in rows[t] \cap Persons(people) : people[q].alias # source
      /\ rows' = rows
  BY DEF MergePeople, Unlocked, txnVars
<1>3. p # source
  BY <1>2 DEF Held
<1>4. p \in Live(people')
  BY <1>1, <1>3, PeopleAssumption DEF PeopleMerged, Live, Persons
<1>5. \A q \in rows[t] \cap Persons(people) :
        q \in Persons(people') /\ people'[q].alias = people[q].alias
  BY <1>1, <1>2 DEF PeopleMerged, Persons
<1>6. Held(t, p)'
  BY <1>2, <1>5 DEF Held
<1> QED
  BY <1>4, <1>6

\* Whatever else is written, primaries stay primaries.
LEMMA HeldKept ==
  ASSUME OnceInv, [Next]_vars, NEW t \in Txns, rows'[t] = rows[t], NEW p \in Live(people),
         Held(t, p)
  PROVE  p \in Live(people') /\ Held(t, p)'
<1>1. ASSUME \A q \in Persons(people) : people'[q] # Absent /\ people'[q].alias = people[q].alias
      PROVE  p \in Live(people') /\ Held(t, p)'
  BY <1>1 DEF Held, Live, Persons
<1>2. CASE UNCHANGED people
  BY <1>1, <1>2 DEF Persons
<1>3. ASSUME NEW u \in Txns, pc[u] = "commit", people' = Contact(u, FALSE)
      PROVE  p \in Live(people') /\ Held(t, p)'
  <2>1. form[u] # None /\ TypeOK
    BY <1>3 DEF OnceInv, TypeInv, TypeOK, PointsOK
  <2>2. SamePeople(people')
    BY <1>3, <2>1, ContactFacts
  <2> QED
    BY <1>1, <2>2 DEF SamePeople, Persons
<1>4. ASSUME NEW u \in Txns, Register(u)
      PROVE  p \in Live(people') /\ Held(t, p)'
  <2>1. PICK r \in Regs \ Rows(regs), q \in People : Registered(u, r, q)
    BY <1>4, RegisterFacts DEF OnceInv
  <2> QED
    BY <1>1, <2>1 DEF Registered
<1>5. ASSUME NEW target \in People, NEW source \in People, MergePeople(target, source)
      PROVE  p \in Live(people') /\ Held(t, p)'
  BY <1>5, HeldMerged
<1> QED
  BY <1>2, <1>3, <1>4, <1>5, PeopleStep

LEMMA PicksHeldStep ==
  ASSUME OnceInv, [Next]_vars
  PROVE  PicksHeld'
<1>1. TypeInv /\ TxnsOK /\ PointsOK /\ None \notin People
  BY PeopleAssumption DEF OnceInv, TypeInv, TypeOK
<1> SUFFICES ASSUME NEW u \in Txns, pc'[u] = "commit"
             PROVE  /\ pick'[u].how \in {"new", "twin"} => pick'[u].who = None
                    /\ pick'[u].how \in {"contact", "alias"} =>
                         pick'[u].who \in Live(people') /\ Held(u, pick[u].who)'
  BY DEF PicksHeld, Held
<1>2. ~End(u) /\ pc'[u] # "idle"
  BY <1>1 DEF TxnsOK, End
<1>3. CASE UNCHANGED <<pc[u], form[u], view[u], pick[u], rows[u]>>
  <2>1. /\ pc[u] = "commit" /\ pick'[u] = pick[u] /\ rows'[u] = rows[u]
    BY <1>3
  <2>2. ASSUME pick[u].how \in {"contact", "alias"}
        PROVE  pick'[u].who \in Live(people') /\ Held(u, pick[u].who)'
    <3>1. PICK p \in Live(people) : p = pick[u].who /\ Held(u, p)
      BY <2>1, <2>2 DEF OnceInv, PicksHeld
    <3>2. p \in Live(people') /\ Held(u, p)'
      BY <2>1, <3>1, HeldKept
    <3>3. pick'[u].who = p
      BY <2>1, <3>1
    <3> QED
      BY <3>2, <3>3 DEF Held
  <2> QED
    BY <2>1, <2>2 DEF OnceInv, PicksHeld
<1>4. CASE ByContact(u)
  <2>1. people' = people /\ rows'[u] = Matched(u)
    BY <1>1, <1>4 DEF TxnsOK, ByContact, dbVars
  <2>2. Leads(u) \subseteq Live(people)
    BY <1>1 DEF TypeInv, TypeOK, AliasesEnd, Leads, Matched, Bearers, Root, Live, Persons
  <2>3. \A p \in Leads(u) : \E q \in Matched(u) :
          q \in Persons(people) /\ (q = p \/ people[q].alias = p)
    BY DEF Leads, Matched, Bearers, Root
  <2>4. \/ pick'[u].who \in Leads(u) /\ pick'[u].how \in {"contact", "alias"}
        \/ pick'[u].who = None /\ pick'[u].how \in {"new", "twin"}
    BY <1>1, <1>4 DEF TxnsOK, ByContact
  <2>5. pick'[u].who \in Leads(u) => Held(u, pick[u].who)'
    BY <2>1, <2>3 DEF Held
  <2> QED
    BY <2>1, <2>2, <2>4, <2>5
<1>5. CASE ByRoster(u) \/ ByChoice(u)
  BY <1>1, <1>5 DEF TxnsOK, ByRoster, ByChoice
<1>6. ~(Begin(u) \/ OpenImport(u) \/ LockEvent(u) \/ TakeKeys(u))
  BY <1>1 DEF TxnsOK, Begin, OpenImport, LockEvent, TakeKeys
<1> QED
  BY <1>1, <1>2, <1>3, <1>4, <1>5, <1>6, TxnStep

LEMMA MatchedLiveStep ==
  ASSUME OnceInv, [Next]_vars
  PROVE  MatchedLive'
<1>1. TypeInv
  BY DEF OnceInv
<1>2. ASSUME UNCHANGED regs,
             \A q \in Persons(people) : people'[q] # Absent /\ people'[q].alias = people[q].alias
      PROVE  MatchedLive'
  BY <1>2 DEF OnceInv, MatchedLive, Rows, Live, Persons
<1>3. ASSUME NEW t \in Txns, Register(t)
      PROVE  MatchedLive'
  <2>1. PICK r \in Regs \ Rows(regs), p \in People : Registered(t, r, p)
    BY <1>1, <1>3, RegisterFacts
  <2>2. /\ regs'[r] = NewRow(t, p)
        /\ \A s \in Rows(regs) : regs'[s] = regs[s]
        /\ \A s \in Rows(regs') : s = r \/ s \in Rows(regs)
    BY <1>1, <2>1, RegisteredActive
  <2>3. regs'[r].person = p /\ regs'[r].how = pick[t].how /\ pc[t] = "commit"
    BY <2>1, <2>2 DEF NewRow, Registered
  <2>4. Live(people) \subseteq Live(people')
    BY <2>1 DEF Registered, Live, Persons
  <2>5. pick[t].how \in ByMatch => p \in Live(people')
    <3>1. CASE pick[t].who = p /\ pick[t].how \in {"contact", "alias"}
      BY <2>3, <2>4, <3>1 DEF OnceInv, PicksHeld
    <3>2. CASE pick[t].who = p /\ pick[t].how \in {"new", "twin"}
      BY <2>3, <3>2, PeopleAssumption DEF OnceInv, PicksHeld
    <3>3. CASE people[p] = Absent
      BY <2>1, <3>3 DEF Registered, Live, Persons
    <3> QED
      BY <2>1, <3>1, <3>2, <3>3 DEF Registered, ByMatch
  <2> QED
    BY <2>2, <2>3, <2>4, <2>5 DEF OnceInv, MatchedLive
<1>4. ASSUME NEW r \in Regs, Annul(r)
      PROVE  MatchedLive'
  <2>1. \A s \in Rows(regs') : /\ s \in Rows(regs) /\ regs'[s].person = regs[s].person
                               /\ regs'[s].how = regs[s].how
    BY <1>1, <1>4, AnnulFacts, AnnulActive DEF Rows
  <2>2. people' = people
    BY <1>4 DEF Annul
  <2> QED
    BY <2>1, <2>2 DEF OnceInv, MatchedLive
<1>5. ASSUME NEW target \in People, NEW source \in People, MergePeople(target, source)
      PROVE  MatchedLive'
  <2>1. PeopleMerged(target, source) /\ RegsMerged(target, source)
    BY <1>1, <1>5, MergeFacts, MergedRegs
  <2>2. target \in Live(people') /\ Live(people) \ {source} \subseteq Live(people')
    BY <2>1, PeopleAssumption DEF PeopleMerged, Live, Persons
  <2>3. \A s \in Rows(regs') :
          /\ s \in Rows(regs) /\ regs'[s].how = regs[s].how
          /\ regs'[s].person = IF regs[s].person = source THEN target ELSE regs[s].person
    BY <2>1 DEF RegsMerged, Rows
  <2> QED
    BY <2>2, <2>3 DEF OnceInv, MatchedLive
<1>6. CASE UNCHANGED <<regs, people>>
  BY <1>2, <1>6 DEF Persons
<1>7. ASSUME NEW u \in Txns, pc[u] = "commit", people' = Contact(u, FALSE), UNCHANGED regs
      PROVE  MatchedLive'
  <2>1. form[u] # None /\ TypeOK
    BY <1>1, <1>7 DEF TypeInv, TypeOK, PointsOK
  <2>2. SamePeople(people')
    BY <1>7, <2>1, ContactFacts
  <2> QED
    BY <1>2, <1>7, <2>2 DEF SamePeople, Persons
<1> QED
  BY <1>3, <1>4, <1>5, <1>6, <1>7, RegsStep, PeopleStep

\* Whoever was matched by his contacts, or made anew, has one active
\* registration for an Event, also after any merges.
THEOREM RegisteredOnceHolds == Spec => []RegisteredOnce
<1>1. Init => OnceInv
  <2>1. Init => OneActive /\ MatchedLive /\ PicksHeld
    BY DEF Init, OneActive, MatchedLive, PicksHeld, Active, Rows
  <2> QED
    BY <2>1, TypeInit DEF OnceInv
<1>2. OnceInv /\ [Next]_vars => OnceInv'
  BY OneActiveStep, PicksHeldStep, MatchedLiveStep, TypeStep DEF OnceInv
<1>3. OnceInv => RegisteredOnce
  <2> SUFFICES ASSUME OnceInv, NEW e \in Events,
                      NEW r \in Active(regs, e), NEW s \in Active(regs, e),
                      {regs[r].how, regs[s].how} \subseteq ByMatch,
                      Root(people, regs[r].person) = Root(people, regs[s].person)
               PROVE  r = s
    BY DEF RegisteredOnce
  <2>1. regs[r].person \in Live(people) /\ regs[s].person \in Live(people)
    BY DEF OnceInv, MatchedLive, Active
  <2>2. regs[r].person = regs[s].person
    BY <2>1 DEF Root, Live
  <2> QED
    BY <2>2 DEF OnceInv, OneActive
<1> QED
  BY <1>1, <1>2, <1>3, PTL DEF Spec

=============================================================================
