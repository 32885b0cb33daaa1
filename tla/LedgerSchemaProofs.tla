------------------------- MODULE LedgerSchemaProofs -------------------------
(***************************************************************************)
(* Proofs about opening the ledger, for any number of connections and of   *)
(* faults: what a connection finds when it opens, that a newer database is *)
(* not used, and who completes a version that is applied in part.          *)
(***************************************************************************)
EXTENDS LedgerSchema, TLAPS

\* The next version after u, written as arithmetic.
NextVersion(u) == IF u < 7 THEN u + 1 ELSE IF u < 10 THEN 10 ELSE 11

\* An open continues with the least version that is still to come.
LEMMA AfterIs ==
  ASSUME NEW u \in Nat
  PROVE  \/ u >= 11 /\ After(u) = [pc |-> "index", v |-> 0, k |-> 0]
         \/ u < 11 /\ After(u) = [pc |-> "apply", k |-> 1, v |-> NextVersion(u)]
<1>1. CASE u >= 11
  <2>1. Pending(u) = {}
    BY <1>1 DEF Pending, Versions
  <2> QED BY <1>1, <2>1 DEF After
<1>2. CASE u < 11
  <2>1. /\ NextVersion(u) \in Pending(u)
        /\ \A x \in Pending(u) : NextVersion(u) <= x
    BY <1>2 DEF Pending, Versions, NextVersion
  <2>2. \A v \in Pending(u) :
           (\A x \in Pending(u) : v <= x) => v = NextVersion(u)
    BY <2>1 DEF Pending, Versions, NextVersion
  <2>3. NextVersion(u) = CHOOSE v \in Pending(u) : \A x \in Pending(u) : v <= x
    BY <2>1, <2>2
  <2> QED BY <1>2, <2>1, <2>3 DEF After
<1> QED BY <1>1, <1>2

\* It is a version, and the ones before it are not after u.
LEMMA NextVersionIs ==
  ASSUME NEW u \in Nat, u < 11
  PROVE  /\ NextVersion(u) \in Versions
         /\ NextVersion(u) > u
         /\ \A v \in Versions : v < NextVersion(u) => v <= u
BY DEF NextVersion, Versions

\* Where an open starts is well-formed, with all earlier versions behind it.
LEMMA AfterPlace ==
  ASSUME NEW u \in Nat
  PROVE  /\ After(u) \in Place
         /\ After(u).pc \in {"apply", "index"}
         /\ After(u).pc = "apply" => /\ After(u).v \in Versions /\ After(u).k = 1
                                     /\ 1 \in 1 .. Added(After(u).v)
                                     /\ \A v \in Versions : v < After(u).v => v <= u
         /\ After(u).pc = "index" => \A v \in Versions : v <= u
<1>1. CASE u >= 11
  BY <1>1, AfterIs DEF Place, Versions
<1>2. CASE u < 11
  BY <1>2, AfterIs, NextVersionIs DEF Place, Added
<1> QED BY <1>1, <1>2

-----------------------------------------------------------------------------
(* Types, and what is applied and marked in which order. *)

\* The three together are inductive.
SchemaInv == TypeOK /\ MarksInOrder /\ PlacesInv

\* The database of any release is marked in order.
LEMMA InitSchema == Init => SchemaInv
<1> SUFFICES ASSUME Init PROVE SchemaInv
  OBVIOUS
<1>1. PICK u \in 0 .. Expected + 1 :
        /\ marked = 1 .. u
        /\ columns = UNION {Columns(v) : v \in {x \in Versions : x <= u}}
  BY DEF Init
<1>2. Closed \in Place
  BY DEF Closed, Place, Versions
<1>3. columns \subseteq AllColumns
  BY <1>1 DEF AllColumns
<1>4. TypeOK
  BY <1>1, <1>2, <1>3, SchemaAssumption DEF Init, TypeOK, Expected, Closed
<1>5. MarksInOrder
  BY <1>1 DEF MarksInOrder, Versions, Expected
<1>6. PlacesInv
  BY DEF Init, PlacesInv, Closed
<1> QED BY <1>4, <1>5, <1>6 DEF SchemaInv

\* The current version, and what it says about the versions before it.
LEMMA CurrentIs ==
  ASSUME SchemaInv, NEW u \in Current
  PROVE  /\ u \in 0 .. 12
         /\ \A v \in Versions : v <= u => v \in marked
<1>1. u \in 0 .. 12 /\ (u = 0 \/ u \in marked)
  BY DEF Current, SchemaInv, TypeOK, Expected
<1> QED BY <1>1 DEF SchemaInv, MarksInOrder, Versions

\* One connection moves, nothing is taken away: the invariant needs to be
\* checked for that connection only.
LEMMA MoveKeeps ==
  ASSUME SchemaInv, NEW o \in Openers, NEW p \in Place, Move(o, p),
         marked \subseteq marked', columns \subseteq columns', columns' \subseteq AllColumns,
         p.pc \in {"apply", "mark"} =>
           /\ p.v \in Versions /\ p.k \in 1 .. Added(p.v)
           /\ \A u \in Versions : u < p.v => u \in marked'
           /\ \A k \in 1 .. Added(p.v) : k < p.k \/ p.pc = "mark" => <<p.v, k>> \in columns',
         p.pc \in {"index", "open"} => Versions \subseteq marked'
  PROVE  /\ at' \in [Openers -> Place]
         /\ \A q \in Openers : at'[q].pc \in {"apply", "mark"} =>
              at'[q].v \in Versions /\ at'[q].k \in 1 .. Added(at'[q].v)
         /\ PlacesInv'
<1>1. at' \in [Openers -> Place] /\ at'[o] = p /\ \A q \in Openers \ {o} : at'[q] = at[q]
  BY DEF Move, SchemaInv, TypeOK
<1>2. \A q \in Openers : at'[q].pc \in {"apply", "mark"} =>
         at'[q].v \in Versions /\ at'[q].k \in 1 .. Added(at'[q].v)
  BY <1>1 DEF SchemaInv, TypeOK
<1>3. ASSUME NEW q \in Openers \ {o}
      PROVE  /\ at'[q].pc \in {"apply", "mark"} =>
                  /\ \A u \in Versions : u < at'[q].v => u \in marked'
                  /\ \A k \in 1 .. Added(at'[q].v) :
                       k < at'[q].k \/ at'[q].pc = "mark" => <<at'[q].v, k>> \in columns'
             /\ at'[q].pc \in {"index", "open"} => Versions \subseteq marked'
  BY <1>1, <1>3 DEF SchemaInv, PlacesInv
<1> QED BY <1>1, <1>2, <1>3 DEF PlacesInv

\* Every step keeps types, order and places.
LEMMA NextSchema == SchemaInv /\ [Next]_vars => SchemaInv'
<1> SUFFICES ASSUME SchemaInv, [Next]_vars PROVE SchemaInv'
  OBVIOUS
<1>0. Closed \in Place /\ Closed.pc = "closed"
  BY DEF Closed, Place, Versions
<1>1. ASSUME NEW o \in Openers, Connect(o) PROVE SchemaInv'
  <2> DEFINE p == [pc |-> "read", v |-> 0, k |-> 0]
  <2>1. p \in Place
    BY DEF Place
  <2>2. marked' = marked /\ columns' = columns /\ faults' = faults /\ Move(o, p)
    BY <1>1 DEF Connect
  <2>3. at' \in [Openers -> Place] /\ PlacesInv' /\ TypeOK'
    BY <2>1, <2>2, MoveKeeps DEF SchemaInv, TypeOK
  <2> QED BY <2>2, <2>3 DEF SchemaInv, MarksInOrder
<1>2. ASSUME NEW o \in Openers, ReadVersion(o) PROVE SchemaInv'
  <2>1. PICK u \in Current : Move(o, IF u > Expected THEN Closed ELSE After(u))
    BY <1>2 DEF ReadVersion
  <2> DEFINE p == IF u > Expected THEN Closed ELSE After(u)
  <2>2. u \in Nat /\ \A v \in Versions : v <= u => v \in marked
    BY CurrentIs
  <2>3. marked' = marked /\ columns' = columns /\ faults' = faults
    BY <1>2 DEF ReadVersion
  <2>4. p \in Place
    BY <1>0, <2>2, AfterPlace
  <2>5. p.pc \in {"apply", "mark"} =>
           /\ p.v \in Versions /\ p.k \in 1 .. Added(p.v)
           /\ \A w \in Versions : w < p.v => w \in marked
           /\ \A k \in 1 .. Added(p.v) : k < p.k \/ p.pc = "mark" => <<p.v, k>> \in columns
    BY <1>0, <2>2, AfterPlace DEF Added
  <2>6. p.pc \in {"index", "open"} => Versions \subseteq marked
    BY <1>0, <2>2, AfterPlace
  <2> HIDE DEF p
  <2>7. at' \in [Openers -> Place] /\ PlacesInv' /\ TypeOK'
    BY <2>1, <2>3, <2>4, <2>5, <2>6, MoveKeeps DEF SchemaInv, TypeOK, p
  <2> QED BY <2>3, <2>7 DEF SchemaInv, MarksInOrder
<1>3. ASSUME NEW o \in Openers, ReadFails(o) PROVE SchemaInv'
  <2> DEFINE p == After(0)
  <2>1. marked' = marked /\ columns' = columns /\ faults' \in 0 .. MaxFaults /\ Move(o, p)
    BY <1>3, SchemaAssumption DEF ReadFails, MayFail, SchemaInv, TypeOK
  <2>2. p = [pc |-> "apply", k |-> 1, v |-> 1]
    BY AfterIs DEF NextVersion
  <2> HIDE DEF p
  <2>3. p \in Place /\ \A v \in Versions : v >= 1
    BY <2>2 DEF Place, Versions
  <2>4. at' \in [Openers -> Place] /\ PlacesInv' /\ TypeOK'
    BY <2>1, <2>2, <2>3, MoveKeeps DEF SchemaInv, TypeOK, Added, Versions
  <2> QED BY <2>1, <2>4 DEF SchemaInv, MarksInOrder
<1>4. ASSUME NEW o \in Openers, AddColumn(o) PROVE SchemaInv'
  <2> DEFINE c == <<at[o].v, at[o].k>>
             p == IF at[o].k < Added(at[o].v) THEN [at[o] EXCEPT !.k = at[o].k + 1]
                  ELSE [at[o] EXCEPT !.pc = "mark"]
  <2>1. /\ at[o] \in Place /\ at[o].v \in Versions /\ at[o].k \in 1 .. Added(at[o].v)
        /\ at[o].pc = "apply" /\ Added(at[o].v) \in 1 .. 7
    BY <1>4 DEF AddColumn, SchemaInv, TypeOK, Added
  <2>2. /\ marked' = marked /\ columns' = columns \cup {c} /\ faults' = faults /\ Move(o, p)
    BY <1>4 DEF AddColumn
  <2>3. p \in Place /\ p.pc \in {"apply", "mark"} /\ p.v = at[o].v /\ p.k \in 1 .. Added(p.v)
    BY <2>1 DEF Place
  <2>4. \A k \in 1 .. Added(p.v) : k < p.k \/ p.pc = "mark" => <<p.v, k>> \in columns'
    BY <2>1, <2>2 DEF SchemaInv, PlacesInv
  <2>5. \A u \in Versions : u < p.v => u \in marked'
    BY <2>1, <2>2, <2>3 DEF SchemaInv, PlacesInv
  <2>6. c \in AllColumns
    BY <2>1 DEF AllColumns, Columns
  <2> HIDE DEF p, c
  <2>7. columns' \subseteq AllColumns
    BY <2>2, <2>6 DEF SchemaInv, TypeOK
  <2>8. at' \in [Openers -> Place] /\ PlacesInv' /\ TypeOK'
    BY <2>1, <2>2, <2>3, <2>4, <2>5, <2>7, MoveKeeps DEF SchemaInv, TypeOK
  <2> QED BY <2>2, <2>8 DEF SchemaInv, MarksInOrder
<1>5. ASSUME NEW o \in Openers, Mark(o) PROVE SchemaInv'
  <2> DEFINE w == at[o].v
             p == After(w)
  <2>1. /\ w \in Versions /\ w \in Nat /\ w <= 11
        /\ \A u \in Versions : u < w => u \in marked
        /\ \A k \in 1 .. Added(w) : <<w, k>> \in columns
    BY <1>5 DEF Mark, SchemaInv, TypeOK, PlacesInv, Versions
  <2>2. /\ marked' = marked \cup {w} /\ columns' = columns /\ faults' = faults /\ Move(o, p)
    BY <1>5 DEF Mark
  <2>3. /\ p \in Place
        /\ p.pc \in {"apply", "index"}
        /\ p.pc = "apply" => /\ p.v \in Versions /\ p.k = 1 /\ 1 \in 1 .. Added(p.v)
                             /\ \A v \in Versions : v < p.v => v <= w
        /\ p.pc = "index" => \A v \in Versions : v <= w
    BY <2>1, AfterPlace
  <2> HIDE DEF p, w
  <2>4. \A v \in Versions : v <= w => v \in marked'
    BY <2>1, <2>2 DEF Versions
  <2>5. /\ p.pc = "apply" => \A v \in Versions : v < p.v => v \in marked'
        /\ p.pc = "index" => Versions \subseteq marked'
    BY <2>3, <2>4
  <2>6. \A k \in 1 .. Added(p.v) : ~ (p.pc = "apply" /\ k < p.k)
    BY <2>3 DEF Added
  <2>7. MarksInOrder'
    BY <2>1, <2>2, <2>4 DEF SchemaInv, MarksInOrder, Columns, Versions
  <2>8. w \in 1 .. Expected + 1
    BY <2>1 DEF Versions, Expected
  <2>9. at' \in [Openers -> Place] /\ PlacesInv' /\ TypeOK'
    BY <2>2, <2>3, <2>5, <2>6, <2>8, MoveKeeps DEF SchemaInv, TypeOK
  <2> QED BY <2>7, <2>9 DEF SchemaInv
<1>6. ASSUME NEW o \in Openers, Index(o) PROVE SchemaInv'
  <2> DEFINE p == [pc |-> "open", v |-> 0, k |-> 0]
  <2>1. p \in Place
    BY DEF Place
  <2>2. /\ marked' = marked /\ columns' = columns /\ faults' = faults /\ Move(o, p)
        /\ Versions \subseteq marked
    BY <1>6 DEF Index, SchemaInv, PlacesInv
  <2>3. at' \in [Openers -> Place] /\ PlacesInv' /\ TypeOK'
    BY <2>1, <2>2, MoveKeeps DEF SchemaInv, TypeOK
  <2> QED BY <2>2, <2>3 DEF SchemaInv, MarksInOrder
<1>7. ASSUME NEW o \in Openers, DuplicateColumn(o) \/ Use(o) \/ StatementFails(o)
      PROVE  SchemaInv'
  <2>1. marked' = marked /\ columns' = columns /\ faults' \in 0 .. MaxFaults /\ Move(o, Closed)
    BY <1>7, SchemaAssumption
       DEF DuplicateColumn, Use, StatementFails, MayFail, SchemaInv, TypeOK
  <2>2. at' \in [Openers -> Place] /\ PlacesInv' /\ TypeOK'
    BY <1>0, <2>1, MoveKeeps DEF SchemaInv, TypeOK
  <2> QED BY <2>1, <2>2 DEF SchemaInv, MarksInOrder
<1>8. CASE Crash
  <2>1. PICK S \in SUBSET Openers :
           at' = [o \in Openers |-> IF o \in S THEN Closed ELSE at[o]]
    BY <1>8 DEF Crash
  <2>2. marked' = marked /\ columns' = columns /\ faults' \in 0 .. MaxFaults
    BY <1>8, SchemaAssumption DEF Crash, MayFail, SchemaInv, TypeOK
  <2>3. TypeOK'
    BY <1>0, <2>1, <2>2 DEF SchemaInv, TypeOK
  <2>4. PlacesInv'
    BY <1>0, <2>1, <2>2 DEF SchemaInv, PlacesInv
  <2> QED BY <2>2, <2>3, <2>4 DEF SchemaInv, MarksInOrder
<1>9. CASE UNCHANGED vars
  BY <1>9 DEF vars, SchemaInv, TypeOK, MarksInOrder, PlacesInv
<1> QED
  BY <1>1, <1>2, <1>3, <1>4, <1>5, <1>6, <1>7, <1>8, <1>9 DEF Next, Step

\* The types hold in every reachable state.
THEOREM SchemaTypes == Spec => []TypeOK
BY InitSchema, NextSchema, PTL DEF Spec, SchemaInv

\* When a connection opens, the ledger has every column record() names.
THEOREM SchemaOpenIsComplete == Spec => []OpenIsComplete
<1>1. SchemaInv => OpenIsComplete
  <2> SUFFICES ASSUME SchemaInv, Versions \subseteq marked PROVE columns = AllColumns
    BY DEF SchemaInv, PlacesInv, OpenIsComplete
  <2> QED BY DEF SchemaInv, MarksInOrder, TypeOK, AllColumns
<1> QED BY InitSchema, NextSchema, <1>1, PTL DEF Spec

-----------------------------------------------------------------------------
(* A newer database. *)

\* It has all columns, so that an open that could not read its version stops
\* at version 2 and marks nothing but version 1.
NewerInv ==
  SchemaInv /\
  (Expected + 1 \in marked =>
     /\ columns = AllColumns
     /\ \A o \in Openers :
          \/ at[o].pc \in {"closed", "read"}
          \/ at[o].pc = "apply" /\ at[o].v \in {1, 2}
          \/ at[o].pc = "mark" /\ at[o].v = 1)

\* A newer release has created all columns this one knows.
LEMMA InitNewer == Init => NewerInv
<1> SUFFICES ASSUME Init PROVE NewerInv
  OBVIOUS
<1>1. ASSUME Expected + 1 \in marked PROVE columns = AllColumns
  <2>1. PICK u \in 0 .. Expected + 1 :
          /\ marked = 1 .. u
          /\ columns = UNION {Columns(v) : v \in {x \in Versions : x <= u}}
    BY DEF Init
  <2>2. {x \in Versions : x <= u} = Versions
    BY <1>1, <2>1 DEF Expected, Versions
  <2> QED BY <2>1, <2>2 DEF AllColumns
<1> QED BY <1>1, InitSchema DEF Init, NewerInv, Closed

\* An open of a newer database is refused, or ends at version 2.
LEMMA NextNewer == NewerInv /\ [Next]_vars => NewerInv'
<1> SUFFICES ASSUME NewerInv, [Next]_vars, (Expected + 1 \in marked)'
             PROVE  /\ columns' = AllColumns
                    /\ \A o \in Openers :
                         \/ at'[o].pc \in {"closed", "read"}
                         \/ at'[o].pc = "apply" /\ at'[o].v \in {1, 2}
                         \/ at'[o].pc = "mark" /\ at'[o].v = 1
  BY NextSchema DEF NewerInv
<1>1. SchemaInv
  BY DEF NewerInv
<1>2. /\ Expected + 1 \in marked /\ columns = AllColumns
      /\ \A o \in Openers :
           \/ at[o].pc \in {"closed", "read"}
           \/ at[o].pc = "apply" /\ at[o].v \in {1, 2}
           \/ at[o].pc = "mark" /\ at[o].v = 1
  <2>1. \/ marked' = marked
        \/ \E o \in Openers : at[o].pc = "mark" /\ marked' = marked \cup {at[o].v}
    BY DEF Next, Step, Connect, ReadVersion, ReadFails, AddColumn,
       DuplicateColumn, Mark, Index, Use, StatementFails, Crash, vars
  <2>2. \A o \in Openers : at[o].pc = "mark" => at[o].v # Expected + 1
    BY <1>1 DEF SchemaInv, TypeOK, Versions, Expected
  <2>3. Expected + 1 \in marked
    BY <2>1, <2>2
  <2> QED BY <2>3 DEF NewerInv
<1>3. columns' = AllColumns
  <2>1. \/ columns' = columns
        \/ \E o \in Openers : /\ at[o].pc = "apply"
                              /\ columns' = columns \cup {<<at[o].v, at[o].k>>}
    BY DEF Next, Step, Connect, ReadVersion, ReadFails, AddColumn,
       DuplicateColumn, Mark, Index, Use, StatementFails, Crash, vars
  <2>2. \A o \in Openers : at[o].pc = "apply" => <<at[o].v, at[o].k>> \in AllColumns
    BY <1>1 DEF SchemaInv, TypeOK, AllColumns, Columns
  <2> QED BY <1>2, <2>1, <2>2
<1>4. \A o \in Openers : <<at[o].v, at[o].k>> \in columns
                         \/ at[o].pc \notin {"apply", "mark"}
  BY <1>1, <1>2 DEF SchemaInv, TypeOK, AllColumns, Columns
<1>5. \A o \in Openers : ReadVersion(o) => at' = [at EXCEPT ![o] = Closed]
  <2>1. marked \subseteq Nat
    BY <1>1 DEF SchemaInv, TypeOK
  <2>2. ASSUME NEW u \in Current PROVE u > Expected
    <3>1. 12 \in marked
      BY <1>2 DEF Expected
    <3>2. u \in Nat /\ 12 <= u
      BY <2>1, <3>1 DEF Current
    <3> QED BY <3>2 DEF Expected
  <2> QED BY <2>2 DEF ReadVersion, Move
<1>6. /\ After(0) = [pc |-> "apply", k |-> 1, v |-> 1]
      /\ After(1) = [pc |-> "apply", k |-> 1, v |-> 2]
      /\ Added(1) = 1
  BY AfterIs DEF NextVersion, Added
<1>7. at \in [Openers -> Place]
  BY <1>1 DEF SchemaInv, TypeOK
<1> QED
  <2>1. ASSUME NEW o \in Openers, Step(o) \/ ReadFails(o) \/ StatementFails(o),
               NEW q \in Openers
        PROVE  \/ at'[q].pc \in {"closed", "read"}
               \/ at'[q].pc = "apply" /\ at'[q].v \in {1, 2}
               \/ at'[q].pc = "mark" /\ at'[q].v = 1
    <3>1. CASE AddColumn(o)
      <4>1. at[o].v = 1 /\ at[o].k = 1 /\ at[o].pc = "apply"
        BY <1>1, <1>2, <1>4, <1>6, <3>1 DEF AddColumn, SchemaInv, TypeOK
      <4>2. Move(o, [at[o] EXCEPT !.pc = "mark"])
        BY <1>6, <3>1, <4>1 DEF AddColumn
      <4> QED BY <1>2, <1>7, <4>1, <4>2 DEF Move, Place
    <3>2. CASE Mark(o)
      <4>1. Move(o, [pc |-> "apply", k |-> 1, v |-> 2])
        BY <1>2, <1>6, <3>2 DEF Mark
      <4> QED BY <1>2, <1>7, <4>1 DEF Move
    <3>3. CASE ReadFails(o)
      BY <1>2, <1>6, <1>7, <3>3 DEF ReadFails, Move
    <3>4. CASE ReadVersion(o)
      BY <1>2, <1>5, <1>7, <3>4 DEF Closed
    <3>5. CASE Connect(o) \/ DuplicateColumn(o) \/ Use(o) \/ StatementFails(o)
      BY <1>2, <1>7, <3>5 DEF Connect, DuplicateColumn, Use, StatementFails, Move, Closed
    <3>6. CASE Index(o)
      BY <1>2, <3>6 DEF Index
    <3> QED BY <2>1, <3>1, <3>2, <3>3, <3>4, <3>5, <3>6 DEF Step
  <2>2. ASSUME Crash, NEW q \in Openers
        PROVE  \/ at'[q].pc \in {"closed", "read"}
               \/ at'[q].pc = "apply" /\ at'[q].v \in {1, 2}
               \/ at'[q].pc = "mark" /\ at'[q].v = 1
    BY <1>2, <2>2 DEF Crash, Closed
  <2>3. CASE UNCHANGED vars
    BY <1>2, <2>3 DEF vars
  <2> QED BY <1>3, <2>1, <2>2, <2>3 DEF Next

\* The database of a newer release is never used.
THEOREM SchemaNewerRefused == Spec => []NewerRefused
<1>1. NewerInv => NewerRefused
  BY DEF NewerInv, NewerRefused
<1> QED BY InitNewer, NextNewer, <1>1, PTL DEF Spec

-----------------------------------------------------------------------------
(* A version that is applied in part. *)

\* Types, order and places, and the gap.
OwnedInv == SchemaInv /\ GapOwned

\* The connection that has added the columns of a version so far is the only
\* one that can go on, and it does not stop.
LEMMA NextOwned ==
  ASSUME OwnedInv, [Next]_vars
  PROVE  OwnedInv'
<1> SUFFICES ASSUME faults' = 0 PROVE GapOwned'
  BY NextSchema DEF OwnedInv, GapOwned
<1>1. SchemaInv /\ GapOwned /\ at \in [Openers -> Place] /\ faults \in Nat
  BY SchemaAssumption DEF OwnedInv, SchemaInv, TypeOK
<1>2. \A kind : ~ MayFail(kind)
  BY <1>1 DEF MayFail
<1>4. faults = 0
  <2>1. ASSUME NEW o \in Openers, Step(o) PROVE faults' = faults
    BY <2>1 DEF Step, Connect, ReadVersion, AddColumn, DuplicateColumn, Mark, Index, Use
  <2> QED BY <1>2, <2>1 DEF Next, ReadFails, StatementFails, Crash, vars
<1>3. ASSUME NEW c \in columns' PROVE c[1] \in marked' \/
        \E q \in Openers : /\ at'[q].v = c[1]
                           /\ at'[q].pc = "mark" \/ (at'[q].pc = "apply" /\ at'[q].k > c[2])
  <2> DEFINE Owns(q, d) == /\ at[q].v = d[1]
                           /\ at[q].pc = "mark" \/ (at[q].pc = "apply" /\ at[q].k > d[2])
             Goal == c[1] \in marked' \/
               \E q \in Openers : /\ at'[q].v = c[1]
                                  /\ at'[q].pc = "mark" \/ (at'[q].pc = "apply" /\ at'[q].k > c[2])
  <2>1. \A d \in columns : d[1] \in marked \/ \E q \in Openers : Owns(q, d)
    BY <1>1, <1>4 DEF GapOwned
  <2>2. ASSUME NEW o \in Openers, AddColumn(o) PROVE Goal
    <3> DEFINE p == IF at[o].k < Added(at[o].v) THEN [at[o] EXCEPT !.k = at[o].k + 1]
                    ELSE [at[o] EXCEPT !.pc = "mark"]
    <3>1. /\ at[o] \in Place /\ at[o].k \in 1 .. Added(at[o].v) /\ Added(at[o].v) \in Nat
          /\ at[o].pc = "apply"
      BY <1>1, <2>2 DEF AddColumn, SchemaInv, TypeOK, Added
    <3>2. /\ p.v = at[o].v
          /\ p.pc = "mark" \/ (p.pc = "apply" /\ p.k = at[o].k + 1)
      BY <3>1 DEF Place
    <3>3. /\ marked' = marked /\ columns' = columns \cup {<<at[o].v, at[o].k>>}
          /\ at'[o] = p /\ \A q \in Openers \ {o} : at'[q] = at[q]
      BY <1>1, <2>2 DEF AddColumn, Move
    <3> HIDE DEF p
    <3>4. CASE c = <<at[o].v, at[o].k>>
      BY <3>1, <3>2, <3>3, <3>4
    <3>5. CASE c \in columns
      <4>1. CASE c[1] \in marked
        BY <3>3, <4>1
      <4>2. ASSUME NEW q \in Openers, Owns(q, c) PROVE Goal
        <5>1. CASE q = o
          <6>1. c \in AllColumns
            BY <1>1, <3>5 DEF SchemaInv, TypeOK
          <6>2. c[2] \in Nat
            BY <6>1 DEF AllColumns, Columns
          <6> QED BY <3>1, <3>2, <3>3, <4>2, <5>1, <6>2
        <5>2. CASE q # o
          BY <3>3, <4>2, <5>2
        <5> QED BY <5>1, <5>2
      <4> QED BY <2>1, <3>5, <4>1, <4>2
    <3> QED BY <3>3, <3>4, <3>5
  <2>3. ASSUME NEW o \in Openers, DuplicateColumn(o) PROVE Goal
    <3>1. /\ marked' = marked /\ columns' = columns
          /\ \A q \in Openers \ {o} : at'[q] = at[q]
      BY <1>1, <2>3 DEF DuplicateColumn, Move
    <3> DEFINE d == <<at[o].v, at[o].k>>
    <3>2. CASE c[1] \in marked
      BY <3>1, <3>2
    <3>3. ASSUME NEW q \in Openers, Owns(q, c), c[1] \notin marked PROVE Goal
      <4>1. CASE q # o
        BY <3>1, <3>3, <4>1
      <4>2. CASE q = o
        <5>1. /\ d \in columns /\ d[1] = c[1] /\ d[2] > c[2] /\ d[2] = at[o].k
          BY <2>3, <3>3, <4>2 DEF DuplicateColumn
        <5>2. PICK r \in Openers : Owns(r, d)
          BY <2>1, <3>3, <5>1
        <5>3. c[2] \in Nat /\ d[2] \in Nat
          BY <1>1, <3>1, <5>1 DEF SchemaInv, TypeOK, AllColumns, Columns
        <5>4. at[r].k \in Nat
          BY <1>1 DEF Place
        <5>5. r # o
          BY <2>3, <5>1, <5>2, <5>3 DEF DuplicateColumn
        <5>6. Owns(r, c)
          BY <5>1, <5>2, <5>3, <5>4
        <5> QED BY <3>1, <5>5, <5>6
      <4> QED BY <4>1, <4>2
    <3> QED BY <2>1, <3>1, <3>2, <3>3
  <2>4. ASSUME NEW o \in Openers, Mark(o) PROVE Goal
    <3>1. /\ marked' = marked \cup {at[o].v} /\ columns' = columns
          /\ \A q \in Openers \ {o} : at'[q] = at[q]
      BY <1>1, <2>4 DEF Mark, Move
    <3> QED BY <2>1, <3>1
  <2>5. ASSUME NEW o \in Openers,
               Connect(o) \/ ReadVersion(o) \/ Index(o) \/ Use(o)
        PROVE  Goal
    <3>1. /\ marked' = marked /\ columns' = columns
          /\ at[o].pc \notin {"apply", "mark"}
          /\ \A q \in Openers \ {o} : at'[q] = at[q]
      BY <1>1, <2>5 DEF Connect, ReadVersion, Index, Use, Move
    <3> QED BY <2>1, <3>1
  <2>6. ASSUME NEW o \in Openers, ReadFails(o) \/ StatementFails(o) PROVE Goal
    BY <1>2, <2>6 DEF ReadFails, StatementFails
  <2>7. CASE Crash
    BY <1>2, <2>7 DEF Crash
  <2>8. CASE UNCHANGED vars
    BY <2>1, <2>8 DEF vars
  <2> QED BY <2>2, <2>3, <2>4, <2>5, <2>6, <2>7, <2>8 DEF Next, Step
<1> QED BY <1>3 DEF GapOwned

\* Until something fails, a version applied in part is about to be completed.
THEOREM SchemaGapOwned == Spec => []GapOwned
<1>1. Init => OwnedInv
  <2> SUFFICES ASSUME Init PROVE GapOwned
    BY InitSchema DEF OwnedInv
  <2>1. PICK u \in 0 .. Expected + 1 :
          /\ marked = 1 .. u
          /\ columns = UNION {Columns(v) : v \in {x \in Versions : x <= u}}
    BY DEF Init
  <2>2. \A c \in columns : c[1] \in marked
    BY <2>1 DEF Columns, Versions, Expected
  <2> QED BY <2>2 DEF GapOwned
<1>2. OwnedInv /\ [Next]_vars => OwnedInv'
  BY NextOwned
<1>3. OwnedInv => GapOwned
  BY DEF OwnedInv
<1> QED BY <1>1, <1>2, <1>3, PTL DEF Spec
=============================================================================
