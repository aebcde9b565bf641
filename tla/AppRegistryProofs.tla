-------------------------- MODULE AppRegistryProofs -------------------------
(* Types, unique ids, the names the registry promises, directories and      *)
(* reloads in AppRegistry, for any packages and heaps.                      *)
EXTENDS AppRegistry, TLAPS

\* No archive brings an id of its own in package.json.
NoPackageIds == \A p \in Packages : p.id = NoId

\* TypeOK needs to know that directories go away only after the loading.
Typed == TypeOK /\ (up = "serving" => todo = {})

\* The next id is not in use, which makes the application that gets it unique.
NextIdFree == nextId \notin LiveIds
IdsInv == Typed /\ UniqueIds /\ NextIdFree

-----------------------------------------------------------------------------
\* What the id of a new application can be.
LEMMA AppIdType ==
    ASSUME TypeOK, NEW p \in Packages, NEW id \in Ids \cup {NoId}
    PROVE  AppId(p, id) \in Ids
BY PackagesAssumption DEF AppId, TypeOK

\* AdvanceNextId keeps next_id_ in its range.
LEMMA NextIdType ==
    ASSUME TypeOK, NEW p, NEW id, NEW others, AdvanceNextId(others, p, id)
    PROVE  nextId' \in Ids
BY DEF AdvanceNextId, TypeOK

\* A registry to which an entry is added, or from which one is taken.
LEMMA WithType ==
    ASSUME NEW K, NEW V, NEW f, DOMAIN f \subseteq K, f \in [DOMAIN f -> V],
           NEW k \in K, NEW v \in V
    PROVE  /\ DOMAIN With(f, k, v) = DOMAIN f \cup {k}
           /\ DOMAIN With(f, k, v) \subseteq K
           /\ With(f, k, v) \in [DOMAIN With(f, k, v) -> V]
BY DEF With

LEMMA WithoutType ==
    ASSUME NEW K, NEW V, NEW f, DOMAIN f \subseteq K, f \in [DOMAIN f -> V],
           NEW k
    PROVE  /\ DOMAIN Without(f, k) = DOMAIN f \ {k}
           /\ DOMAIN Without(f, k) \subseteq K
           /\ Without(f, k) \in [DOMAIN Without(f, k) -> V]
BY DEF Without

\* The registry after a constructor succeeded or failed, in TypeOK's terms.
RegTyped(r) == /\ DOMAIN r \subseteq Heaps /\ r \in [DOMAIN r -> Entry]
               /\ {r[k].id : k \in {j \in DOMAIN r : ~r[j].freed}} \subseteq Ids
DiskTyped(f) == DOMAIN f \subseteq Dirs /\ f \in [DOMAIN f -> Packages]

\* TypeOK, and TypeOK', by RegTyped and DiskTyped.
LEMMA TypeOKParts ==
    TypeOK <=> /\ up \in {"loading", "serving", "dead"}
               /\ DiskTyped(disk) /\ todo \subseteq DOMAIN disk
               /\ RegTyped(reg) /\ nextId \in Ids
BY DEF TypeOK, RegTyped, DiskTyped, LiveIds, Live

LEMMA RegWith ==
    ASSUME NEW r, RegTyped(r), NEW k \in Heaps, NEW v \in Entry,
           v.freed \/ v.id \in Ids
    PROVE  RegTyped(With(r, k, v))
<1> DEFINE w == With(r, k, v)
<1>1. DOMAIN w \subseteq Heaps /\ w \in [DOMAIN w -> Entry]
  BY WithType DEF RegTyped
<1>2. \A j \in DOMAIN w : ~w[j].freed => w[j].id \in Ids
  BY DEF With, RegTyped
<1> QED BY <1>1, <1>2 DEF RegTyped

LEMMA RegWithout ==
    ASSUME NEW r, RegTyped(r), NEW k
    PROVE  RegTyped(Without(r, k))
<1> DEFINE w == Without(r, k)
<1>1. DOMAIN w \subseteq Heaps /\ w \in [DOMAIN w -> Entry]
  BY WithoutType DEF RegTyped
<1>2. \A j \in DOMAIN w : ~w[j].freed => w[j].id \in Ids
  BY DEF Without, RegTyped
<1> QED BY <1>1, <1>2 DEF RegTyped

\* A successful construction keeps the types.
LEMMA StartsType ==
    ASSUME TypeOK, NEW others, RegTyped(others), NEW p \in Packages,
           NEW id \in Ids \cup {NoId}, NEW d \in Dirs, Starts(others, p, id, d)
    PROVE  RegTyped(reg') /\ nextId' \in Ids
<1>1. PICK k \in Heaps \ DOMAIN others :
        reg' = With(others, k, [id |-> AppId(p, id), dir |-> d, freed |-> FALSE])
  BY DEF Starts
<1>2. AppId(p, id) \in Ids BY AppIdType
<1>3. [id |-> AppId(p, id), dir |-> d, freed |-> FALSE] \in Entry
  BY <1>2 DEF Entry
<1>4. RegTyped(reg') BY <1>1, <1>2, <1>3, RegWith
<1> QED BY <1>4, NextIdType DEF Starts

\* So does one that fails.
LEMMA FailsType ==
    ASSUME TypeOK, NEW others, RegTyped(others), NEW p \in Packages,
           NEW id \in Ids \cup {NoId}, NEW d \in Dirs, Fails(others, p, id, d)
    PROVE  RegTyped(reg') /\ nextId' \in Ids
<1>1. CASE p.form = "refused" /\ reg' = others /\ AdvanceNextId(others, p, id)
  BY <1>1, NextIdType
<1>2. CASE (\E k \in Heaps \ DOMAIN others :
              reg' = With(others, k, [id |-> id, dir |-> d, freed |-> TRUE]))
           /\ UNCHANGED nextId
  <2>1. PICK k \in Heaps \ DOMAIN others :
          reg' = With(others, k, [id |-> id, dir |-> d, freed |-> TRUE])
    BY <1>2
  <2>2. [id |-> id, dir |-> d, freed |-> TRUE] \in Entry BY DEF Entry
  <2>3. RegTyped(reg') BY <2>1, <2>2, RegWith
  <2> QED BY <1>2, <2>3 DEF TypeOK
<1> QED BY <1>1, <1>2 DEF Fails

-----------------------------------------------------------------------------
(* Steps keep the types *)

LEMMA DiskWith ==
    ASSUME NEW f, DiskTyped(f), NEW d \in Dirs, NEW p \in Packages
    PROVE  DiskTyped(With(f, d, p)) /\ d \in DOMAIN With(f, d, p)
BY DEF DiskTyped, With

LEMMA DiskWithout ==
    ASSUME NEW f, DiskTyped(f), NEW d
    PROVE  DiskTyped(Without(f, d))
BY WithoutType DEF DiskTyped

LEMMA HomeType ==
    ASSUME NEW files, NEW d, NEW name \in Names, NEW id \in Ids
    PROVE  Home(files, d, name, id) \in Dirs
BY DEF Home, Dirs

LEMMA MovedType ==
    ASSUME TypeOK, NEW others, RegTyped(others), NEW files, DiskTyped(files),
           NEW d \in Dirs, NEW p \in Packages, NEW id \in Ids \cup {NoId},
           Moved(others, files, d, p, id)
    PROVE  RegTyped(reg') /\ nextId' \in Ids /\ DiskTyped(disk')
<1> DEFINE home == Home(files, d, p.name, AppId(p, id))
<1>1. p.name \in Names BY PackagesAssumption
<1>2. home \in Dirs BY <1>1, AppIdType, HomeType
<1>3. Starts(others, p, id, home) /\ disk' = With(Without(files, d), home, p)
  BY DEF Moved
<1>4. RegTyped(reg') /\ nextId' \in Ids BY <1>2, <1>3, StartsType
<1>5. DiskTyped(disk') BY <1>2, <1>3, DiskWithout, DiskWith
<1> QED BY <1>4, <1>5

\* Every outcome of a POST, reduced to what it writes.
LEMMA DiesType ==
    ASSUME Typed, Dies, DiskTyped(disk'), DOMAIN disk \subseteq DOMAIN disk'
    PROVE  Typed'
<1>1. up' = "dead" /\ todo' = todo /\ reg' = reg /\ nextId' = nextId BY DEF Dies
<1>2. todo \subseteq DOMAIN disk /\ RegTyped(reg) /\ nextId \in Ids
  BY TypeOKParts DEF Typed
<1>3. TypeOK' BY <1>1, <1>2 DEF TypeOK, RegTyped, DiskTyped, LiveIds, Live
<1> QED BY <1>1, <1>3 DEF Typed

LEMMA ServingType ==
    ASSUME Typed, up = "serving", up' = up, todo' = todo,
           DiskTyped(disk'), RegTyped(reg'), nextId' \in Ids
    PROVE  Typed'
<1>1. todo' = {} BY DEF Typed
<1>2. TypeOK' BY <1>1 DEF TypeOK, RegTyped, DiskTyped, LiveIds, Live
<1> QED BY <1>1, <1>2 DEF Typed

LEMMA DeployType ==
    ASSUME Typed, up = "serving", NEW d \in Dirs, NEW p \in Packages,
           Deploy(With(disk, d, p), d, p)
    PROVE  Typed'
<1> DEFINE files == With(disk, d, p)
<1>0. TypeOK /\ RegTyped(reg) /\ DiskTyped(disk) BY TypeOKParts DEF Typed
<1>1. DiskTyped(files) /\ DOMAIN disk \subseteq DOMAIN files
  BY <1>0, DiskWith DEF With
<1> HIDE DEF files
<1>2. CASE Moved(reg, files, d, p, NoId) /\ UNCHANGED <<up, todo>>
  <2>1. RegTyped(reg') /\ nextId' \in Ids /\ DiskTyped(disk')
    BY <1>0, <1>1, <1>2, MovedType
  <2> QED BY <1>2, <2>1, ServingType
<1>3. CASE Fails(reg, p, NoId, d) /\ disk' = files /\ UNCHANGED <<up, todo>>
  <2>1. RegTyped(reg') /\ nextId' \in Ids BY <1>0, <1>3, FailsType
  <2> QED BY <1>1, <1>3, <2>1, ServingType
<1>4. CASE disk' = files /\ Dies BY <1>1, <1>4, DiesType
<1> QED BY <1>2, <1>3, <1>4 DEF Deploy, MoveDies, files

LEMMA ReloadType ==
    ASSUME Typed, up = "serving", NEW k \in Live, NEW p \in Packages,
           NEW id \in Ids \cup {NoId},
           Reload(k, With(disk, reg[k].dir, p), p, id)
    PROVE  Typed'
<1> DEFINE d == reg[k].dir  files == With(disk, d, p)  others == Without(reg, k)
<1>0. TypeOK /\ RegTyped(reg) /\ DiskTyped(disk) /\ d \in Dirs
  BY TypeOKParts DEF Typed, RegTyped, Live, Entry
<1>1. /\ DiskTyped(files) /\ DOMAIN disk \subseteq DOMAIN files
      /\ RegTyped(others)
  BY <1>0, DiskWith, RegWithout DEF With
<1>2. \/ Moved(others, files, d, p, id) /\ UNCHANGED <<up, todo>>
      \/ disk' = files /\ Dies
  BY DEF Reload, MoveDies
<1> HIDE DEF d, files, others
<1>3. CASE Moved(others, files, d, p, id) /\ UNCHANGED <<up, todo>>
  <2>1. RegTyped(reg') /\ nextId' \in Ids /\ DiskTyped(disk')
    BY <1>0, <1>1, <1>3, MovedType
  <2> QED BY <1>3, <2>1, ServingType
<1>4. CASE disk' = files /\ Dies BY <1>1, <1>4, DiesType
<1> QED BY <1>2, <1>3, <1>4

LEMMA LoadType ==
    ASSUME Typed, LoadApplication
    PROVE  Typed'
<1>0. TypeOK /\ RegTyped(reg) /\ DiskTyped(disk) BY TypeOKParts DEF Typed
<1>1. PICK d \in todo :
        /\ up = "loading" /\ todo' = todo \ {d}
        /\ Starts(reg, disk[d], NoId, d) \/ Fails(reg, disk[d], NoId, d)
        /\ UNCHANGED <<up, disk>>
  BY DEF LoadApplication
<1>2. d \in Dirs /\ disk[d] \in Packages
  BY <1>0 DEF TypeOK, DiskTyped
<1>3. RegTyped(reg') /\ nextId' \in Ids
  BY <1>0, <1>1, <1>2, StartsType, FailsType
<1>4. up' = up /\ disk' = disk /\ todo' \subseteq DOMAIN disk
  BY <1>0, <1>1 DEF TypeOK
<1>5. TypeOK'
  BY <1>0, <1>1, <1>3, <1>4 DEF TypeOK, RegTyped, DiskTyped, LiveIds, Live
<1> QED BY <1>1, <1>4, <1>5 DEF Typed

LEMMA TypedNext ==
    ASSUME Typed, [Next]_vars
    PROVE  Typed'
<1>0. TypeOK /\ RegTyped(reg) /\ DiskTyped(disk) BY TypeOKParts DEF Typed
<1>1. CASE LoadApplication BY <1>1, LoadType
<1>2. CASE LoadDies
  BY <1>0, <1>2, DiesType DEF LoadDies
<1>3. CASE Serve
  BY <1>3 DEF Serve, Typed, TypeOK, LiveIds, Live
<1>4. CASE Restart
  <2>1. RegTyped([k \in {} |-> Plain]) BY DEF RegTyped
  <2>2. up' = "loading" /\ todo' = DOMAIN disk /\ disk' = disk
        /\ RegTyped(reg') /\ nextId' \in Ids
    BY <1>4, <2>1, BoundsAssumption DEF Restart, Ids
  <2>3. TypeOK'
    BY <1>0, <2>2 DEF TypeOK, RegTyped, DiskTyped, LiveIds, Live
  <2> QED BY <2>2, <2>3 DEF Typed
<1>5. ASSUME NEW name \in Names, NEW p \in Packages, PostApp(name, p)
      PROVE  Typed'
  <2> DEFINE d == <<name, Plain>>
  <2>1. d \in Dirs BY DEF Dirs
  <2>2. CASE Deploy(With(disk, d, p), d, p)
    BY <1>5, <2>1, <2>2, DeployType DEF PostApp
  <2>3. CASE \E k \in Live : reg[k].dir = d
                             /\ Reload(k, With(disk, d, p), p, NoId)
    BY <1>5, <2>3, ReloadType DEF PostApp
  <2> QED BY <1>5, <2>2, <2>3 DEF PostApp
<1>6. ASSUME NEW id \in Ids, NEW p \in Packages, PostAppId(id, p)
      PROVE  Typed'
  BY <1>6, ReloadType DEF PostAppId
<1>7. ASSUME NEW id \in Ids, Delete(id)
      PROVE  Typed'
  <2>1. PICK k \in Live : disk' = Without(disk, reg[k].dir)
                          /\ reg' = Without(reg, k)
    BY <1>7 DEF Delete
  <2>2. DiskTyped(disk') /\ RegTyped(reg')
    BY <1>0, <2>1, DiskWithout, RegWithout
  <2> QED BY <1>0, <1>7, <2>2, ServingType DEF Delete, TypeOK
<1>8. CASE DeleteAll
  <2>1. RegTyped(reg') BY <1>8 DEF DeleteAll, RegTyped
  <2>2. DiskTyped(disk') BY <1>0, <1>8 DEF DeleteAll, DiskTyped
  <2> QED BY <1>0, <1>8, <2>1, <2>2, ServingType DEF DeleteAll, TypeOK
<1>9. CASE Fault
  BY <1>0, <1>9, DiesType DEF Fault
<1>10. CASE UNCHANGED vars
  BY <1>10 DEF vars, Typed, TypeOK, LiveIds, Live
<1> QED BY <1>1, <1>2, <1>3, <1>4, <1>5, <1>6, <1>7, <1>8, <1>9, <1>10 DEF Next

LEMMA TypedInit == Init => Typed
BY BoundsAssumption DEF Init, Typed, TypeOK, LiveIds, Live, Ids

\* The types, and that every application that runs has an id
\* (application.cpp:1417-1425), whatever is posted and whenever the server stops.
THEOREM TypeCorrect == Spec => []TypeOK
<1>1. Init => Typed BY TypedInit
<1>2. Typed /\ [Next]_vars => Typed' BY TypedNext
<1>3. Typed => TypeOK BY DEF Typed
<1> QED BY <1>1, <1>2, <1>3, PTL DEF Spec

-----------------------------------------------------------------------------
(* Ids *)

\* getNextId(true) leaves next_id_ at an id that no application has.
LEMMA Advanced ==
    ASSUME NEW p, NEW others, p.id = NoId, AdvanceNextId(others, p, NoId),
           nextId \in Ids
    PROVE  /\ nextId' # nextId
           /\ nextId' \notin {others[k].id : k \in {j \in DOMAIN others :
                                                     ~others[j].freed}}
BY DEF AdvanceNextId, Ids

\* Distinct ids and a free next_id_, for a registry and a value of next_id_.
Apart(r, n) ==
    /\ \A j, k \in DOMAIN r :
          ~r[j].freed /\ ~r[k].freed /\ r[j].id = r[k].id => j = k
    /\ \A k \in DOMAIN r : ~r[k].freed => r[k].id # n

LEMMA ApartIsIdsInv ==
    /\ UniqueIds /\ NextIdFree <=> Apart(reg, nextId)
    /\ (UniqueIds /\ NextIdFree)' <=> Apart(reg', nextId')
BY DEF UniqueIds, NextIdFree, Apart, LiveIds, Live

\* Taking an application out of the registry.
LEMMA ApartWithout ==
    ASSUME NEW r, NEW n, Apart(r, n), NEW k
    PROVE  Apart(Without(r, k), n)
BY DEF Apart, Without

\* A fresh application: it gets next_id_, and a new next_id_ is sought.
LEMMA StartsApart ==
    ASSUME NEW r, Apart(r, nextId), nextId \in Ids, NEW p \in Packages,
           p.id = NoId, NEW d, Starts(r, p, NoId, d)
    PROVE  Apart(reg', nextId')
<1>1. PICK k \in Heaps \ DOMAIN r :
        reg' = With(r, k, [id |-> nextId, dir |-> d, freed |-> FALSE])
  BY DEF Starts, AppId
<1>2. /\ nextId' # nextId
      /\ \A j \in DOMAIN r : ~r[j].freed => r[j].id # nextId'
  BY Advanced DEF Starts
<1> QED BY <1>1, <1>2 DEF Apart, With

\* A reloaded application: it keeps an id that no other has.
LEMMA ReloadApart ==
    ASSUME NEW r, Apart(r, nextId), NEW p \in Packages, p.id = NoId,
           NEW id \in Ids, id # nextId,
           \A k \in DOMAIN r : ~r[k].freed => r[k].id # id,
           NEW d, Starts(r, p, id, d)
    PROVE  Apart(reg', nextId')
<1>1. id # NoId BY MarksAssumption DEF Ids
<1>2. PICK k \in Heaps \ DOMAIN r :
        reg' = With(r, k, [id |-> id, dir |-> d, freed |-> FALSE])
  BY <1>1 DEF Starts, AppId
<1>3. nextId' = nextId BY <1>1 DEF Starts, AdvanceNextId
<1> QED BY <1>2, <1>3 DEF Apart, With

LEMMA FailsApart ==
    ASSUME NEW r, Apart(r, nextId), nextId \in Ids, NEW p \in Packages,
           p.id = NoId, NEW d, Fails(r, p, NoId, d)
    PROVE  Apart(reg', nextId')
<1>1. CASE reg' = r /\ AdvanceNextId(r, p, NoId)
  BY <1>1, Advanced DEF Apart
<1>2. CASE (\E k \in Heaps \ DOMAIN r :
              reg' = With(r, k, [id |-> NoId, dir |-> d, freed |-> TRUE]))
           /\ UNCHANGED nextId
  BY <1>2 DEF Apart, With
<1> QED BY <1>1, <1>2 DEF Fails

LEMMA DiesApart ==
    ASSUME Apart(reg, nextId), Dies
    PROVE  Apart(reg', nextId')
BY DEF Dies

LEMMA ApartNext ==
    ASSUME NoPackageIds, Typed, Apart(reg, nextId), [Next]_vars
    PROVE  Apart(reg', nextId')
<1>0. nextId \in Ids /\ DOMAIN reg \subseteq Heaps
      /\ \A d \in DOMAIN disk : disk[d] \in Packages
  BY DEF Typed, TypeOK
<1>1. CASE LoadApplication
  <2>1. PICK d \in todo : Starts(reg, disk[d], NoId, d)
                          \/ Fails(reg, disk[d], NoId, d)
    BY <1>1 DEF LoadApplication
  <2>2. disk[d] \in Packages /\ disk[d].id = NoId
    BY <1>0 DEF Typed, TypeOK, NoPackageIds
  <2> QED BY <1>0, <2>1, <2>2, StartsApart, FailsApart
<1>2. CASE LoadDies \/ Fault BY <1>2, DiesApart DEF LoadDies, Fault
<1>3. CASE Serve \/ UNCHANGED vars BY <1>3 DEF Serve, vars
<1>4. CASE Restart \/ DeleteAll BY <1>4 DEF Restart, DeleteAll, Apart
<1>5. ASSUME NEW name \in Names, NEW p \in Packages, PostApp(name, p)
      PROVE  Apart(reg', nextId')
  <2>1. p.id = NoId BY DEF NoPackageIds
  <2>2. CASE \E k \in Live : \E d : Starts(Without(reg, k), p, NoId, d)
    BY <1>0, <2>1, <2>2, ApartWithout, StartsApart
  <2>3. CASE \E d : Starts(reg, p, NoId, d) \/ Fails(reg, p, NoId, d)
    BY <1>0, <2>1, <2>3, StartsApart, FailsApart
  <2>4. CASE Dies BY <2>4, DiesApart
  <2> QED BY <1>5, <2>2, <2>3, <2>4
          DEF PostApp, Deploy, Reload, Moved, MoveDies
<1>6. ASSUME NEW id \in Ids, NEW p \in Packages, PostAppId(id, p)
      PROVE  Apart(reg', nextId')
  <2>1. PICK k \in Live : /\ reg[k].id = id
                          /\ Reload(k, With(disk, reg[k].dir, p), p, id)
    BY <1>6 DEF PostAppId
  <2>2. p.id = NoId BY DEF NoPackageIds
  <2>3. CASE \E d : Starts(Without(reg, k), p, id, d)
    <3>1. /\ id # nextId
          /\ \A j \in DOMAIN reg \ {k} : ~reg[j].freed => reg[j].id # id
      BY <2>1 DEF Apart, Live
    <3>2. Apart(Without(reg, k), nextId) BY ApartWithout
    <3> QED BY <2>2, <2>3, <3>1, <3>2, ReloadApart DEF Without
  <2>4. CASE Dies BY <2>4, DiesApart
  <2> QED BY <2>1, <2>3, <2>4 DEF Reload, Moved, MoveDies
<1>7. ASSUME NEW id \in Ids, Delete(id)
      PROVE  Apart(reg', nextId')
  BY <1>7, ApartWithout DEF Delete
<1> QED BY <1>1, <1>2, <1>3, <1>4, <1>5, <1>6, <1>7 DEF Next

\* Whatever is deployed, reloaded, deleted or loaded again, no two applications
\* share an id (application.cpp:793-812), for any number of them: as long as
\* package.json brings none (1417-1418).
THEOREM UniqueIdsAlways ==
    ASSUME NoPackageIds
    PROVE  Spec => []UniqueIds
<1>1. Init => IdsInv
  BY TypedInit DEF Init, IdsInv, UniqueIds, NextIdFree, LiveIds, Live
<1>2. IdsInv /\ [Next]_vars => IdsInv'
  BY TypedNext, ApartNext, ApartIsIdsInv DEF IdsInv
<1>3. IdsInv => UniqueIds BY DEF IdsInv
<1> QED BY <1>1, <1>2, <1>3, PTL DEF Spec

-----------------------------------------------------------------------------
(* The registry implements AppNames                                        *)

\* The ids in a registry, as AppNames sees them.
NamesOf(r) == [k \in {j \in DOMAIN r : ~r[j].freed} |-> r[k].id]

LEMMA NamesAre ==
    /\ [k \in Live |-> reg[k].id] = NamesOf(reg)
    /\ [k \in Live |-> reg[k].id]' = NamesOf(reg')
BY DEF NamesOf, Live

\* An application added to a registry, and one taken out of it.
LEMMA NamesOfStarts ==
    ASSUME NEW r, NEW p, NEW id, NEW d, Starts(r, p, id, d)
    PROVE  \E k \in Heaps \ DOMAIN r :
              NamesOf(reg') = Naming!Named(NamesOf(r), k, AppId(p, id))
<1>1. PICK k \in Heaps \ DOMAIN r :
        reg' = With(r, k, [id |-> AppId(p, id), dir |-> d, freed |-> FALSE])
  BY DEF Starts
<1>2. {j \in DOMAIN reg' : ~reg'[j].freed}
        = {j \in DOMAIN r : ~r[j].freed} \cup {k}
  BY <1>1 DEF With
<1>3. \A j \in DOMAIN r : reg'[j] = r[j]
  BY <1>1 DEF With
<1>4. reg'[k].id = AppId(p, id)
  BY <1>1 DEF With
<1> QED BY <1>2, <1>3, <1>4 DEF NamesOf, Naming!Named

LEMMA NamesOfFails ==
    ASSUME NEW r, NEW p, NEW id, NEW d, Fails(r, p, id, d)
    PROVE  NamesOf(reg') = NamesOf(r)
<1>1. CASE reg' = r BY <1>1
<1>2. CASE \E k \in Heaps \ DOMAIN r :
             reg' = With(r, k, [id |-> id, dir |-> d, freed |-> TRUE])
  BY <1>2 DEF NamesOf, With
<1> QED BY <1>1, <1>2 DEF Fails

LEMMA NamesOfWithout ==
    ASSUME NEW k \in Live
    PROVE  NamesOf(Without(reg, k)) = Naming!Rest(k)
BY NamesAre DEF NamesOf, Without, Naming!Rest, Live

\* A construction in the registry as it is: a new name.
LEMMA EnterNames ==
    ASSUME Typed, Apart(reg, nextId), NEW p \in Packages, p.id = NoId,
           NEW d, Starts(reg, p, NoId, d)
    PROVE  \E k \in Heaps, id \in Ids : Naming!Enter(k, id)
<1>1. PICK k \in Heaps \ DOMAIN reg :
        NamesOf(reg') = Naming!Named(NamesOf(reg), k, AppId(p, NoId))
  BY NamesOfStarts
<1>2. AppId(p, NoId) = nextId /\ nextId \in Ids
  BY DEF AppId, Typed, TypeOK
<1>3. nextId \notin Naming!InUse
  BY NamesAre DEF Naming!InUse, NamesOf, Apart
<1>4. k \notin DOMAIN NamesOf(reg) BY DEF NamesOf
<1>5. Naming!Enter(k, nextId)
  BY <1>1, <1>2, <1>3, <1>4, NamesAre DEF Naming!Enter
<1> QED BY <1>1, <1>2, <1>5 DEF Naming!Enter

\* A construction in the registry without application k: k is reloaded.
LEMMA ReloadNames ==
    ASSUME Typed, Apart(reg, nextId), NEW k \in Live, NEW p \in Packages,
           p.id = NoId, NEW id \in Ids \cup {NoId},
           id = NoId \/ id = reg[k].id,
           NEW d, Starts(Without(reg, k), p, id, d)
    PROVE  \E j \in Heaps, i \in Ids : Naming!Reload(k, j, i)
<1> DEFINE i == AppId(p, id)
<1>1. PICK j \in Heaps \ DOMAIN Without(reg, k) :
        NamesOf(reg') = Naming!Named(NamesOf(Without(reg, k)), j, i)
  BY NamesOfStarts
<1>2. i \in Ids BY AppIdType DEF Typed
<1>3. NamesOf(reg)[k] = reg[k].id /\ k \in DOMAIN NamesOf(reg)
  BY DEF NamesOf, Live
<1>4. i = reg[k].id \/ i = nextId BY DEF AppId
<1>5. nextId \notin Naming!InUse
  BY NamesAre DEF Naming!InUse, NamesOf, Apart
<1>6. j \notin DOMAIN NamesOf(reg) \ {k} BY <1>1 DEF NamesOf, Without
<1>7. NamesOf(reg') = Naming!Named(Naming!Rest(k), j, i)
  BY <1>1, NamesOfWithout
<1> HIDE DEF i
<1>8. Naming!Reload(k, j, i)
  BY <1>3, <1>4, <1>5, <1>6, <1>7, NamesAre DEF Naming!Reload
<1> QED BY <1>1, <1>2, <1>8 DEF Naming!Reload

LEMMA NamesNext ==
    ASSUME NoPackageIds, Typed, Apart(reg, nextId), [Next]_vars
    PROVE  Naming!Next \/ UNCHANGED [k \in Live |-> reg[k].id]
<1>0. /\ DOMAIN reg \subseteq Heaps
      /\ \A d \in DOMAIN disk : disk[d] \in Packages
      /\ \A p \in Packages : p.id = NoId
  BY DEF Typed, TypeOK, NoPackageIds
<1>1. ASSUME reg' = reg
      PROVE  UNCHANGED [k \in Live |-> reg[k].id]
  BY <1>1, NamesAre
<1>2. CASE LoadApplication
  <2>1. PICK d \in todo : \/ Starts(reg, disk[d], NoId, d)
                          \/ Fails(reg, disk[d], NoId, d)
    BY <1>2 DEF LoadApplication
  <2>2. disk[d] \in Packages BY <1>0 DEF Typed, TypeOK
  <2>3. CASE Starts(reg, disk[d], NoId, d)
    BY <1>0, <2>2, <2>3, EnterNames DEF Naming!Next
  <2>4. CASE Fails(reg, disk[d], NoId, d)
    BY <2>4, NamesOfFails, NamesAre
  <2> QED BY <2>1, <2>3, <2>4
<1>3. CASE LoadDies \/ Fault \/ Serve \/ UNCHANGED vars
  BY <1>1, <1>3 DEF LoadDies, Fault, Dies, Serve, vars
<1>4. CASE Restart \/ DeleteAll
  <2>1. NamesOf(reg') = [k \in {} |-> 0]
    BY <1>4 DEF Restart, DeleteAll, NamesOf
  <2> QED BY <2>1, NamesAre DEF Naming!Next, Naming!Clear
<1>5. ASSUME NEW name \in Names, NEW p \in Packages, PostApp(name, p)
      PROVE  Naming!Next \/ UNCHANGED [k \in Live |-> reg[k].id]
  <2>1. CASE \E k \in Live : \E d : Starts(Without(reg, k), p, NoId, d)
    BY <1>0, <2>1, ReloadNames DEF Naming!Next, Live
  <2>2. CASE \E d : Starts(reg, p, NoId, d)
    BY <1>0, <2>2, EnterNames DEF Naming!Next
  <2>3. CASE \E d : Fails(reg, p, NoId, d)
    BY <2>3, NamesOfFails, NamesAre
  <2>4. CASE Dies BY <1>1, <2>4 DEF Dies
  <2> QED BY <1>5, <2>1, <2>2, <2>3, <2>4
          DEF PostApp, Deploy, Reload, Moved, MoveDies
<1>6. ASSUME NEW id \in Ids, NEW p \in Packages, PostAppId(id, p)
      PROVE  Naming!Next \/ UNCHANGED [k \in Live |-> reg[k].id]
  <2>1. PICK k \in Live : /\ reg[k].id = id
                          /\ Reload(k, With(disk, reg[k].dir, p), p, id)
    BY <1>6 DEF PostAppId
  <2>2. CASE \E d : Starts(Without(reg, k), p, id, d)
    BY <1>0, <2>1, <2>2, ReloadNames DEF Naming!Next, Live
  <2>3. CASE Dies BY <1>1, <2>3 DEF Dies
  <2> QED BY <2>1, <2>2, <2>3 DEF Reload, Moved, MoveDies
<1>7. ASSUME NEW id \in Ids, Delete(id)
      PROVE  Naming!Next
  <2>1. PICK k \in Live : reg' = Without(reg, k) BY <1>7 DEF Delete
  <2>2. k \in DOMAIN NamesOf(reg) /\ NamesOf(reg') = Naming!Rest(k)
    BY <2>1, NamesOfWithout DEF NamesOf, Live
  <2>3. Naming!Leave(k) BY <2>2, NamesAre DEF Naming!Leave
  <2> QED BY <1>0, <2>3 DEF Naming!Next, Live
<1> QED BY <1>2, <1>3, <1>4, <1>5, <1>6, <1>7 DEF Next

\* What the registry does with ids is what AppNames promises, for any number of
\* applications and any history (application.cpp:666-735, 793-812): an id is
\* given to one application, kept or replaced by a fresh one in a reload, and
\* free again only when the application is gone.
THEOREM RegistryImplementsNames ==
    ASSUME NoPackageIds
    PROVE  Spec => ImplementsAppNames
<1>1. Init => IdsInv /\ Naming!Init
  BY TypedInit, NamesAre DEF Init, IdsInv, UniqueIds, NextIdFree, LiveIds, Live,
     Naming!Init
<1>2. IdsInv /\ [Next]_vars => IdsInv'
  BY TypedNext, ApartNext, ApartIsIdsInv DEF IdsInv
<1>3. IdsInv /\ [Next]_vars => [Naming!Next]_([k \in Live |-> reg[k].id])
  BY NamesNext, ApartIsIdsInv DEF IdsInv
<1> QED BY <1>1, <1>2, <1>3, PTL DEF Spec, ImplementsAppNames, Naming!Spec

-----------------------------------------------------------------------------
(* Directories: every application has its own, and what it runs from        *)

LiveOf(r) == {k \in DOMAIN r : ~r[k].freed}
Distinct(r) == \A j, k \in LiveOf(r) : r[j].dir = r[k].dir => j = k
Housed(r, f) == \A k \in LiveOf(r) : r[k].dir \in DOMAIN f
Sound(r, f)  == \A k \in LiveOf(r) : f[r[k].dir].form = "good"
Away(r, d)   == \A k \in LiveOf(r) : r[k].dir # d

\* Directories that are still to be loaded belong to nobody.
DirsInv ==
    /\ Distinct(reg) /\ Housed(reg, disk)
    /\ up # "dead" => Sound(reg, disk)
    /\ up = "loading" => \A d \in todo : Away(reg, d)

\* A new application in a directory of its own
LEMMA StartsHoused ==
    ASSUME NEW r, NEW f, NEW p, NEW id, NEW d, Starts(r, p, id, d),
           Distinct(r), Housed(r, f), Sound(r, f), Away(r, d),
           d \in DOMAIN f, f[d] = p
    PROVE  /\ Distinct(reg') /\ Housed(reg', f) /\ Sound(reg', f)
           /\ \A e : Away(r, e) /\ e # d => Away(reg', e)
<1>1. PICK k \in Heaps \ DOMAIN r :
         reg' = With(r, k, [id |-> AppId(p, id), dir |-> d, freed |-> FALSE])
  BY DEF Starts
<1>2. p.form = "good" BY DEF Starts
<1>3. /\ LiveOf(reg') = LiveOf(r) \cup {k} /\ k \notin LiveOf(r)
      /\ reg'[k].dir = d /\ \A j \in LiveOf(r) : reg'[j] = r[j]
  BY <1>1 DEF With, LiveOf
<1>4. Distinct(reg') BY <1>3 DEF Distinct, Away
<1>5. Housed(reg', f) BY <1>3 DEF Housed
<1>6. Sound(reg', f) BY <1>2, <1>3 DEF Sound
<1>7. \A e : Away(r, e) /\ e # d => Away(reg', e) BY <1>3 DEF Away
<1> QED BY <1>4, <1>5, <1>6, <1>7

\* One that fails leaves the others where they are.
LEMMA FailsHoused ==
    ASSUME NEW r, NEW p, NEW id, NEW d, Fails(r, p, id, d)
    PROVE  LiveOf(reg') = LiveOf(r) /\ \A j \in LiveOf(r) : reg'[j] = r[j]
<1>1. CASE reg' = r BY <1>1
<1>2. ASSUME NEW k \in Heaps \ DOMAIN r,
             reg' = With(r, k, [id |-> id, dir |-> d, freed |-> TRUE])
      PROVE  LiveOf(reg') = LiveOf(r) /\ \A j \in LiveOf(r) : reg'[j] = r[j]
  BY <1>2 DEF With, LiveOf
<1> QED BY <1>1, <1>2 DEF Fails

\* One that is moved goes to a directory nobody has.
LEMMA MovedHoused ==
    ASSUME NEW r, NEW f, NEW d, NEW p, NEW id, Moved(r, f, d, p, id),
           Distinct(r), Housed(r, f), Sound(r, f), Away(r, d)
    PROVE  Distinct(reg') /\ Housed(reg', disk') /\ Sound(reg', disk')
<1> DEFINE home == Home(f, d, p.name, AppId(p, id))
<1>1. /\ home \notin DOMAIN f \ {d} /\ Starts(r, p, id, home)
      /\ disk' = With(Without(f, d), home, p)
  BY DEF Moved
<1> HIDE DEF home
<1>2. /\ DOMAIN disk' = (DOMAIN f \ {d}) \cup {home} /\ disk'[home] = p
      /\ \A e \in DOMAIN f \ {d} : disk'[e] = f[e]
  BY <1>1 DEF With, Without
<1>3. \A k \in LiveOf(r) : r[k].dir \in DOMAIN f \ {d}
  BY DEF Housed, Away
<1>4. Housed(r, disk') /\ Sound(r, disk') /\ Away(r, home)
  BY <1>1, <1>2, <1>3 DEF Housed, Sound, Away
<1> QED BY <1>1, <1>2, <1>4, StartsHoused

LEMMA WithoutHoused ==
    ASSUME NEW r, NEW f, NEW k \in LiveOf(r), Distinct(r), Housed(r, f)
    PROVE  /\ LiveOf(Without(r, k)) = LiveOf(r) \ {k}
           /\ \A j \in LiveOf(r) \ {k} : Without(r, k)[j] = r[j]
           /\ Distinct(Without(r, k)) /\ Housed(Without(r, k), f)
           /\ Away(Without(r, k), r[k].dir)
<1>1. /\ LiveOf(Without(r, k)) = LiveOf(r) \ {k}
      /\ \A j \in LiveOf(r) \ {k} : Without(r, k)[j] = r[j]
  BY DEF Without, LiveOf
<1> QED BY <1>1 DEF Distinct, Housed, Away

\* A process that dies keeps its directories.
LEMMA DiesHoused ==
    ASSUME DirsInv, NEW f, Dies, disk' = f, DOMAIN disk \subseteq DOMAIN f
    PROVE  DirsInv'
BY DEF DirsInv, Dies, Housed, Distinct

LEMMA DeployHoused ==
    ASSUME DirsInv, up = "serving", NEW d, NEW p, Away(reg, d),
           Deploy(With(disk, d, p), d, p)
    PROVE  DirsInv'
<1> DEFINE f == With(disk, d, p)
<1>1. /\ DOMAIN f = DOMAIN disk \cup {d}
      /\ \A e \in DOMAIN disk \ {d} : f[e] = disk[e]
  BY DEF With
<1>2. Distinct(reg) /\ Housed(reg, f) /\ Sound(reg, f)
  <2>1. Distinct(reg) /\ Housed(reg, disk) /\ Sound(reg, disk) BY DEF DirsInv
  <2> HIDE DEF f
  <2> QED BY <1>1, <2>1 DEF Housed, Sound, Away
<1>3. \/ Moved(reg, f, d, p, NoId) /\ UNCHANGED <<up, todo>>
      \/ Fails(reg, p, NoId, d) /\ disk' = f /\ UNCHANGED <<up, todo>>
      \/ Dies /\ disk' = f
  BY DEF Deploy, MoveDies
<1> HIDE DEF f
<1>4. CASE Moved(reg, f, d, p, NoId) /\ UNCHANGED <<up, todo>>
  BY <1>2, <1>4, MovedHoused DEF DirsInv
<1>5. CASE Fails(reg, p, NoId, d) /\ disk' = f /\ UNCHANGED <<up, todo>>
  BY <1>2, <1>5, FailsHoused DEF DirsInv, Distinct, Housed, Sound
<1>6. CASE Dies /\ disk' = f BY <1>1, <1>6, DiesHoused
<1> QED BY <1>3, <1>4, <1>5, <1>6

LEMMA ReloadHoused ==
    ASSUME DirsInv, up = "serving", NEW k \in Live, NEW p, NEW id,
           Reload(k, With(disk, reg[k].dir, p), p, id)
    PROVE  DirsInv'
<1> DEFINE d == reg[k].dir
           f == With(disk, d, p)
           r == Without(reg, k)
<1>1. /\ DOMAIN f = DOMAIN disk \cup {d}
      /\ \A e \in DOMAIN disk \ {d} : f[e] = disk[e]
  BY DEF With
<1>2. k \in LiveOf(reg) BY DEF Live, LiveOf
<1>3. Distinct(reg) /\ Housed(reg, disk) /\ Sound(reg, disk) BY DEF DirsInv
<1>4. \/ Moved(r, f, d, p, id) /\ UNCHANGED <<up, todo>>
      \/ Dies /\ disk' = f
  BY DEF Reload, MoveDies
<1>5. /\ LiveOf(r) = LiveOf(reg) \ {k} /\ Distinct(r) /\ Housed(r, disk)
      /\ Away(r, d) /\ \A j \in LiveOf(reg) \ {k} : r[j] = reg[j]
  BY <1>2, <1>3, WithoutHoused
<1> HIDE DEF r, f, d
<1>6. Housed(r, f) /\ Sound(r, f)
  BY <1>1, <1>3, <1>5 DEF Housed, Sound, Away
<1>7. CASE Moved(r, f, d, p, id) /\ UNCHANGED <<up, todo>>
  BY <1>5, <1>6, <1>7, MovedHoused DEF DirsInv
<1>8. CASE Dies /\ disk' = f BY <1>1, <1>8, DiesHoused
<1> QED BY <1>4, <1>7, <1>8

LEMMA LoadHoused ==
    ASSUME DirsInv, Typed, LoadApplication
    PROVE  DirsInv'
<1>1. PICK d \in todo :
         /\ todo' = todo \ {d}
         /\ Starts(reg, disk[d], NoId, d) \/ Fails(reg, disk[d], NoId, d)
  BY DEF LoadApplication
<1>2. /\ up = "loading" /\ UNCHANGED <<up, disk>> /\ d \in DOMAIN disk
      /\ Distinct(reg) /\ Housed(reg, disk) /\ Sound(reg, disk)
      /\ \A e \in todo : Away(reg, e)
  BY <1>1 DEF LoadApplication, Typed, TypeOK, DirsInv
<1>3. CASE Starts(reg, disk[d], NoId, d)
  BY <1>1, <1>2, <1>3, StartsHoused DEF DirsInv
<1>4. CASE Fails(reg, disk[d], NoId, d)
  BY <1>1, <1>2, <1>4, FailsHoused DEF DirsInv, Distinct, Housed, Sound, Away
<1> QED BY <1>1, <1>3, <1>4

LEMMA DirsNext ==
    ASSUME Typed, DirsInv, [Next]_vars
    PROVE  DirsInv'
<1>1. CASE LoadApplication BY <1>1, LoadHoused
<1>2. CASE LoadDies BY <1>2, DiesHoused DEF LoadDies
<1>3. CASE Serve BY <1>3 DEF Serve, DirsInv
<1>4. CASE Restart
  <2>1. LiveOf(reg') = {} BY <1>4 DEF Restart, LiveOf
  <2> QED BY <2>1 DEF DirsInv, Distinct, Housed, Sound, Away
<1>5. ASSUME NEW name \in Names, NEW p \in Packages, PostApp(name, p)
      PROVE  DirsInv'
  <2> DEFINE d == <<name, Plain>>
             owners == {k \in Live : reg[k].dir = d}
  <2>1. up = "serving" BY <1>5 DEF PostApp
  <2>2. CASE owners = {}
    <3>1. Away(reg, d) BY <2>2 DEF Away, Live, LiveOf
    <3>2. Deploy(With(disk, d, p), d, p) BY <1>5, <2>2 DEF PostApp
    <3> QED BY <2>1, <3>1, <3>2, DeployHoused
  <2>3. ASSUME NEW k \in owners, Reload(k, With(disk, d, p), p, NoId)
        PROVE  DirsInv'
    BY <2>1, <2>3, ReloadHoused
  <2> QED BY <1>5, <2>2, <2>3 DEF PostApp
<1>6. ASSUME NEW id \in Ids, NEW p \in Packages, PostAppId(id, p)
      PROVE  DirsInv'
  BY <1>6, ReloadHoused DEF PostAppId
<1>7. ASSUME NEW id \in Ids, Delete(id)
      PROVE  DirsInv'
  <2>1. PICK k \in Live : /\ disk' = Without(disk, reg[k].dir)
                          /\ reg' = Without(reg, k)
    BY <1>7 DEF Delete
  <2>2. k \in LiveOf(reg) BY DEF Live, LiveOf
  <2>3. up = "serving" /\ up' = up BY <1>7 DEF Delete
  <2>4. Distinct(reg) /\ Housed(reg, disk) /\ Sound(reg, disk)
    BY <2>3 DEF DirsInv
  <2>5. /\ LiveOf(reg') = LiveOf(reg) \ {k} /\ Distinct(reg')
        /\ Housed(reg', disk) /\ Away(reg', reg[k].dir)
        /\ \A j \in LiveOf(reg) \ {k} : reg'[j] = reg[j]
    BY <2>1, <2>2, <2>4, WithoutHoused
  <2>6. /\ DOMAIN disk' = DOMAIN disk \ {reg[k].dir}
        /\ \A e \in DOMAIN disk' : disk'[e] = disk[e]
    BY <2>1 DEF Without
  <2>7. \A j \in LiveOf(reg') : /\ j \in LiveOf(reg) /\ reg'[j] = reg[j]
                              /\ reg'[j].dir \in DOMAIN disk'
    BY <2>5, <2>6 DEF Housed, Away
  <2>8. Housed(reg', disk') BY <2>7 DEF Housed
  <2>9. Sound(reg', disk') BY <2>4, <2>6, <2>7 DEF Sound
  <2> QED BY <2>3, <2>5, <2>8, <2>9 DEF DirsInv
<1>8. CASE DeleteAll
  <2>1. LiveOf(reg') = {} BY <1>8 DEF DeleteAll, LiveOf
  <2> QED BY <2>1 DEF DirsInv, Distinct, Housed, Sound, Away
<1>9. CASE Fault BY <1>9, DiesHoused DEF Fault
<1>10. CASE UNCHANGED vars
  BY <1>10 DEF vars, DirsInv, Distinct, Housed, Sound, Away
<1> QED BY <1>1, <1>2, <1>3, <1>4, <1>5, <1>6, <1>7, <1>8, <1>9, <1>10 DEF Next

LEMMA DirsInit == Init => DirsInv
BY DEF Init, DirsInv, Distinct, Housed, Sound, Away, LiveOf

\* For any archives, names and ids, every application has a directory of its
\* own, and what is in it can be started again (post_request.cpp:235-282): an
\* archive is never extracted over, or a directory renamed to, that of another.
THEOREM DirsApartAlways == Spec => []DirsApart
<1>1. Typed /\ DirsInv /\ [Next]_vars => DirsInv' BY DirsNext
<1>2. DirsInv => DirsApart
  BY DEF DirsInv, DirsApart, Distinct, Housed, Sound, Live, LiveOf
<1>3. Spec => []Typed BY TypedInit, TypedNext, PTL DEF Spec
<1> QED BY <1>1, <1>2, <1>3, DirsInit, PTL DEF Spec


-----------------------------------------------------------------------------
(* Reloads                                                                  *)

LEMMA ReloadKeeps ==
    ASSUME NEW id \in Ids, NEW p \in Packages, p.id = NoId, PostAppId(id, p)
    PROVE  up' = "dead" \/ id \in LiveIds'
<1>1. PICK k \in Live : Reload(k, With(disk, reg[k].dir, p), p, id)
  BY DEF PostAppId
<1> DEFINE files == With(disk, reg[k].dir, p)
           others == Without(reg, k)
<1>2. CASE up' = "dead" BY <1>2
<1>3. CASE Moved(others, files, reg[k].dir, p, id)
  <2>1. PICK d : Starts(others, p, id, d) BY <1>3 DEF Moved
  <2>2. AppId(p, id) = id
    <3>1. id # NoId BY MarksAssumption, BoundsAssumption DEF Ids
    <3> QED BY <3>1 DEF AppId
  <2>3. PICK j \in Heaps \ DOMAIN others :
          reg' = With(others, j, [id |-> id, dir |-> d, freed |-> FALSE])
    BY <2>1, <2>2 DEF Starts
  <2>4. j \in DOMAIN reg' /\ reg'[j].id = id /\ ~reg'[j].freed
    BY <2>3 DEF With
  <2> QED BY <2>4 DEF LiveIds, Live
<1> QED BY <1>1, <1>2, <1>3 DEF Reload, MoveDies, Dies

\* A POST to /app/{id} whose package brings no id leaves an application with
\* the id of the URL, or ends the server (post_request.cpp:253), in whatever
\* state the registry and the directories are.
THEOREM ReloadKeepsIdAlways == Spec => ReloadKeepsId
<1>1. [Next]_vars =>
        [\A id \in Ids :
           (\E p \in Packages : PostAppId(id, p) /\ p.id = NoId)
              => up' = "dead" \/ id \in LiveIds']_vars
  BY ReloadKeeps
<1> QED BY <1>1, PTL DEF Spec, ReloadKeepsId
=============================================================================
