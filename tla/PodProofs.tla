------------------------------ MODULE PodProofs ------------------------------
(***************************************************************************)
(* The volumes and mounts of a task's Pod, for every number of             *)
(* integrations, volumes and mounts.                                       *)
(***************************************************************************)
EXTENDS TaskPod, FiniteSetTheorems, TLAPS

\* The three loops of mergeVolumes.
Adding ==
  INSTANCE FoldProofs WITH Turn <- AddNew, Values <- Seq(Volumes), Elements <- Volumes
Overriding ==
  INSTANCE FoldProofs WITH Turn <- Override, Values <- Seq(Volumes), Elements <- Volumes
Configuring ==
  INSTANCE FoldProofs WITH
    Turn <- AddConfigs, Values <- Seq(Volumes), Elements <- IntegrationSpecs

-----------------------------------------------------------------------------
Has(vs, v) == \E k \in DOMAIN vs : vs[k] = v

\* The instances speak of the same folds.
LEMMA SameFolds ==
  /\ \A x, y : FoldLeft(AddNew, x, y) = Adding!FoldLeft(AddNew, x, y)
  /\ \A x, y : FoldLeft(Override, x, y) = Overriding!FoldLeft(Override, x, y)
  /\ \A x, y : FoldLeft(AddConfigs, x, y) = Configuring!FoldLeft(AddConfigs, x, y)
<1>1. \A x, y : FoldLeft(AddNew, x, y) = Adding!FoldLeft(AddNew, x, y)
  BY DEF FoldLeft, Adding!FoldLeft, MapThenFoldSet, Adding!MapThenFoldSet, Max, Adding!Max
<1>2. \A x, y : FoldLeft(Override, x, y) = Overriding!FoldLeft(Override, x, y)
  BY DEF FoldLeft, Overriding!FoldLeft, MapThenFoldSet, Overriding!MapThenFoldSet,
         Max, Overriding!Max
<1>3. \A x, y : FoldLeft(AddConfigs, x, y) = Configuring!FoldLeft(AddConfigs, x, y)
  BY DEF FoldLeft, Configuring!FoldLeft, MapThenFoldSet, Configuring!MapThenFoldSet,
         Max, Configuring!Max
<1>. QED BY <1>1, <1>2, <1>3

-----------------------------------------------------------------------------
(* One turn *)

LEMMA AddOne ==
  ASSUME NEW vs \in Seq(Volumes), Unique(vs), NEW v \in Volumes
  PROVE  /\ AddNew(vs, v) \in Seq(Volumes) /\ Unique(AddNew(vs, v))
         /\ NamesOf(AddNew(vs, v)) = NamesOf(vs) \cup {v.name}
         /\ \A u : Has(vs, u) => Has(AddNew(vs, v), u)
         /\ \A u : Has(AddNew(vs, v), u) => Has(vs, u) \/ u = v
         /\ v.name \notin NamesOf(vs) => Has(AddNew(vs, v), v)
<1>1. CASE v.name \in NamesOf(vs)
  BY <1>1 DEF AddNew, NamesOf
<1>2. CASE v.name \notin NamesOf(vs)
  <2>. DEFINE ws == Append(vs, v)
  <2>1. /\ ws \in Seq(Volumes) /\ DOMAIN vs = 1..Len(vs) /\ DOMAIN ws = 1..(Len(vs) + 1)
        /\ \A k \in 1..Len(vs) : ws[k] = vs[k]
        /\ ws[Len(vs) + 1] = v /\ Len(vs) \in Nat
    OBVIOUS
  <2>2. AddNew(vs, v) = ws
    BY <1>2 DEF AddNew
  <2>. HIDE DEF ws
  <2>3. \A k \in DOMAIN ws : k \in DOMAIN vs \/ k = Len(vs) + 1
    BY <2>1
  <2>4. NamesOf(ws) = NamesOf(vs) \cup {v.name}
    BY <2>1, <2>3 DEF NamesOf
  <2>5. Unique(ws)
    BY <1>2, <2>1, <2>3 DEF Unique, NamesOf
  <2>6. /\ (\A u : Has(vs, u) => Has(ws, u)) /\ Has(ws, v)
        /\ \A u : Has(ws, u) => Has(vs, u) \/ u = v
    BY <2>1, <2>3 DEF Has
  <2>. QED BY <2>1, <2>2, <2>4, <2>5, <2>6
<1>. QED BY <1>1, <1>2

LEMMA OverrideTypes ==
  \A vs \in Seq(Volumes), v \in Volumes : Override(vs, v) \in Seq(Volumes)
<1>1. ASSUME NEW vs \in Seq(Volumes), NEW v \in Volumes
      PROVE  [n \in DOMAIN vs |-> IF vs[n].name = v.name /\ vs[n].from = "task"
                                  THEN v ELSE vs[n]] \in Seq(Volumes)
  <2>1. Len(vs) \in Nat /\ DOMAIN vs = 1..Len(vs) /\ \A n \in 1..Len(vs) : vs[n] \in Volumes
    OBVIOUS
  <2>. QED BY <2>1
<1>2. \A vs \in Seq(Volumes), v \in Volumes : Append(vs, v) \in Seq(Volumes)
  OBVIOUS
<1>3. ASSUME NEW vs \in Seq(Volumes), NEW v \in Volumes
      PROVE  Override(vs, v) \in Seq(Volumes)
  BY <1>1, <1>2 DEF Override
<1>. QED BY <1>3

LEMMA OverrideOne ==
  ASSUME NEW vs \in Seq(Volumes), Unique(vs), NEW v \in Volumes
  PROVE  /\ Override(vs, v) \in Seq(Volumes) /\ Unique(Override(vs, v))
         /\ NamesOf(Override(vs, v)) = NamesOf(vs) \cup {v.name}
         /\ \A u : Has(vs, u) /\ (u.from # "task" \/ u.name # v.name)
                     => Has(Override(vs, v), u)
         /\ \A u : Has(Override(vs, v), u) => Has(vs, u) \/ u = v
         /\ (\A u : Has(vs, u) /\ u.name = v.name => u.from = "task")
              => Has(Override(vs, v), v)
<1>1. CASE v.name \in NamesOf(vs)
  <2>. DEFINE ws == [n \in DOMAIN vs |->
                       IF vs[n].name = v.name /\ vs[n].from = "task" THEN v ELSE vs[n]]
  <2>1. Override(vs, v) = ws
    BY <1>1 DEF Override
  <2>2. DOMAIN ws = DOMAIN vs /\ \A n \in DOMAIN vs : ws[n].name = vs[n].name
    OBVIOUS
  <2>3. ws \in Seq(Volumes)
    BY <2>1, OverrideTypes
  <2>4. Unique(ws) /\ NamesOf(ws) = NamesOf(vs)
    <3>. HIDE DEF ws
    <3>. QED BY <2>2 DEF Unique, NamesOf
  <2>5. ASSUME NEW u, Has(vs, u), u.from # "task" \/ u.name # v.name PROVE Has(ws, u)
    BY <2>5 DEF Has
  <2>6. ASSUME \A u : Has(vs, u) /\ u.name = v.name => u.from = "task" PROVE Has(ws, v)
    <3>1. PICK n \in DOMAIN vs : vs[n].name = v.name
      BY <1>1 DEF NamesOf
    <3>2. vs[n].from = "task"
      BY <2>6, <3>1 DEF Has
    <3>3. n \in DOMAIN ws /\ ws[n] = v
      BY <3>1, <3>2
    <3>. HIDE DEF ws
    <3>. QED BY <3>3 DEF Has
  <2>7. ASSUME NEW u, Has(ws, u) PROVE Has(vs, u) \/ u = v
    BY <2>7 DEF Has
  <2>. HIDE DEF ws
  <2>. QED BY <1>1, <2>1, <2>3, <2>4, <2>5, <2>6, <2>7
<1>2. CASE v.name \notin NamesOf(vs)
  <2>1. Override(vs, v) = AddNew(vs, v)
    BY <1>2 DEF Override, AddNew
  <2>. QED BY <1>2, <2>1, AddOne
<1>. QED BY <1>1, <1>2

-----------------------------------------------------------------------------
(* The loops *)

\* The names of the first n elements.
NamesUpTo(vs, n) == {vs[m].name : m \in 1..n}

LEMMA NamesGrow ==
  ASSUME NEW vs, NEW n \in Nat \ {0}
  PROVE  NamesUpTo(vs, n) = NamesUpTo(vs, n - 1) \cup {vs[n].name}
<1>1. \A m : m \in 1..n <=> m \in 1..(n - 1) \/ m = n
  OBVIOUS
<1>. QED BY <1>1 DEF NamesUpTo

LEMMA NamesAtEnd ==
  ASSUME NEW S, NEW vs \in Seq(S)
  PROVE  NamesUpTo(vs, 0) = {} /\ NamesUpTo(vs, Len(vs)) = NamesOf(vs)
BY DEF NamesUpTo, NamesOf

\* Adding a list of volumes keeps what is there, and adds one for each name that is new.
LEMMA Added ==
  ASSUME NEW vs \in Seq(Volumes), Unique(vs), NEW more \in Seq(Volumes)
  PROVE  LET all == FoldLeft(AddNew, vs, more) IN
         /\ all \in Seq(Volumes) /\ Unique(all)
         /\ NamesOf(all) = NamesOf(vs) \cup NamesOf(more)
         /\ \A u : Has(vs, u) => Has(all, u)
         /\ \A x \in NamesOf(more) \ NamesOf(vs) :
              \E m \in DOMAIN more : more[m].name = x /\ Has(all, more[m])
<1>. DEFINE N == Len(more)
<1>1. N \in Nat /\ DOMAIN more = 1..N /\ \A n \in 1..N : more[n] \in Volumes
  OBVIOUS
<1>2. PICK f \in [0..N -> Seq(Volumes)] :
        /\ f[0] = vs
        /\ \A n \in 1..N : f[n] = AddNew(f[n - 1], more[n])
        /\ f[N] = FoldLeft(AddNew, vs, more)
  <2>1. \A x \in Seq(Volumes), v \in Volumes : AddNew(x, v) \in Seq(Volumes)
    BY DEF AddNew
  <2>2. \E f \in [0..Len(more) -> Seq(Volumes)] :
          /\ f[0] = vs
          /\ \A n \in 1..Len(more) : f[n] = AddNew(f[n - 1], more[n])
          /\ f[Len(more)] = Adding!FoldLeft(AddNew, vs, more)
    BY <2>1, Adding!FoldIsLoop
  <2>. QED BY <2>2, SameFolds
<1>. DEFINE Inv(us, n) ==
       /\ Unique(us)
       /\ NamesOf(us) = NamesOf(vs) \cup NamesUpTo(more, n)
       /\ \A u : Has(vs, u) => Has(us, u)
       /\ \A x \in NamesUpTo(more, n) \ NamesOf(vs) :
            \E m \in 1..n : more[m].name = x /\ Has(us, more[m])
<1>. DEFINE T == {n \in Nat : Inv(f[n], n)}
<1>3. 0 \in T
  BY <1>2, NamesAtEnd
<1>4. ASSUME NEW n \in 1..N, n - 1 \in T PROVE n \in T
  <2>. DEFINE us == f[n - 1]
              v == more[n]
              k == n - 1
  <2>1. us \in Seq(Volumes) /\ v \in Volumes /\ f[n] = AddNew(us, v) /\ Inv(us, k)
    BY <1>1, <1>2, <1>4
  <2>2. NamesUpTo(more, n) = NamesUpTo(more, k) \cup {v.name}
    BY NamesGrow
  <2>3. n \in Nat /\ n \in 1..n /\ 1..k \subseteq 1..n
    OBVIOUS
  <2>. HIDE DEF us, v, k
  <2>4. /\ Unique(f[n]) /\ NamesOf(f[n]) = NamesOf(us) \cup {v.name}
        /\ \A u : Has(us, u) => Has(f[n], u)
        /\ v.name \notin NamesOf(us) => Has(f[n], v)
    <3>1. us \in Seq(Volumes) /\ v \in Volumes /\ Unique(us)
      BY <2>1
    <3>2. /\ Unique(AddNew(us, v)) /\ NamesOf(AddNew(us, v)) = NamesOf(us) \cup {v.name}
          /\ \A u : Has(us, u) => Has(AddNew(us, v), u)
          /\ v.name \notin NamesOf(us) => Has(AddNew(us, v), v)
      BY <3>1, AddOne
    <3>. QED BY <2>1, <3>2
  <2>5. ASSUME NEW x \in NamesUpTo(more, n) \ NamesOf(vs)
        PROVE  \E m \in 1..n : more[m].name = x /\ Has(f[n], more[m])
    <3>1. CASE x \in NamesUpTo(more, k)
      BY <2>1, <2>3, <2>4, <3>1
    <3>2. CASE x \notin NamesUpTo(more, k)
      <4>1. x = v.name /\ x \notin NamesOf(us)
        BY <2>1, <2>2, <2>5, <3>2
      <4>. QED BY <2>3, <2>4, <4>1 DEF v
    <3>. QED BY <3>1, <3>2
  <2>6. Inv(f[n], n)
    BY <2>1, <2>2, <2>4, <2>5
  <2>. HIDE DEF Inv
  <2>. QED BY <2>3, <2>6
<1>5. N \in T
  <2>. T \in SUBSET Nat
    OBVIOUS
  <2>. HIDE DEF T
  <2>. QED BY <1>1, <1>3, <1>4, Adding!Turns
<1>. QED BY <1>1, <1>2, <1>5, NamesAtEnd

\* Overriding gives way to nothing but the task's volumes.
LEMMA Overridden ==
  ASSUME NEW vs \in Seq(Volumes), Unique(vs),
         NEW more \in Seq({Volume(n, "instance") : n \in Names})
  PROVE  LET all == FoldLeft(Override, vs, more) IN
         /\ all \in Seq(Volumes) /\ Unique(all)
         /\ NamesOf(all) = NamesOf(vs) \cup NamesOf(more)
         /\ \A u : Has(vs, u) /\ (u.from # "task" \/ u.name \notin NamesOf(more))
                     => Has(all, u)
         /\ \A x \in NamesOf(more) :
              (\A u : Has(vs, u) /\ u.name = x => u.from = "task")
                => Has(all, Volume(x, "instance"))
<1>. DEFINE N == Len(more)
<1>1. /\ N \in Nat /\ DOMAIN more = 1..N
      /\ \A n \in 1..N : /\ more[n] \in Volumes
                          /\ more[n] = Volume(more[n].name, "instance")
  BY DEF Volume, Volumes
<1>2. PICK f \in [0..N -> Seq(Volumes)] :
        /\ f[0] = vs
        /\ \A n \in 1..N : f[n] = Override(f[n - 1], more[n])
        /\ f[N] = FoldLeft(Override, vs, more)
  <2>1. \A x \in Seq(Volumes), v \in Volumes : Override(x, v) \in Seq(Volumes)
    BY OverrideTypes
  <2>2. more \in Seq(Volumes)
    BY <1>1
  <2>3. \E f \in [0..Len(more) -> Seq(Volumes)] :
          /\ f[0] = vs
          /\ \A n \in 1..Len(more) : f[n] = Override(f[n - 1], more[n])
          /\ f[Len(more)] = Overriding!FoldLeft(Override, vs, more)
    BY <2>1, <2>2, Overriding!FoldIsLoop
  <2>. QED BY <2>3, SameFolds
<1>. DEFINE Kept(us, names) ==
              \A u : Has(vs, u) /\ (u.from # "task" \/ u.name \notin names) => Has(us, u)
            Taken(us, names) ==
              \A x \in names :
                (\A u : Has(vs, u) /\ u.name = x => u.from = "task")
                  => Has(us, Volume(x, "instance"))
            Inv(us, names) ==
              /\ Unique(us) /\ NamesOf(us) = NamesOf(vs) \cup names
              /\ \A u : Has(us, u) /\ u.name \notin names => Has(vs, u)
              /\ Kept(us, names) /\ Taken(us, names)
            T == {n \in Nat : Inv(f[n], NamesUpTo(more, n))}
<1>3. 0 \in T
  BY <1>2, NamesAtEnd
<1>4. ASSUME NEW n \in 1..N, n - 1 \in T PROVE n \in T
  <2>. DEFINE us == f[n - 1]
              v == more[n]
              names == NamesUpTo(more, n - 1)
  <2>1. /\ us \in Seq(Volumes) /\ v \in Volumes /\ f[n] = Override(us, v)
        /\ v = Volume(v.name, "instance") /\ v.from = "instance"
    BY <1>1, <1>2, <1>4 DEF Volume
  <2>2. NamesUpTo(more, n) = names \cup {v.name}
    BY NamesGrow
  <2>3. n \in Nat /\ Inv(us, names)
    BY <1>4
  <2>. HIDE DEF us, v, names
  <2>4. /\ Unique(f[n]) /\ NamesOf(f[n]) = NamesOf(us) \cup {v.name}
        /\ \A u : Has(us, u) /\ (u.from # "task" \/ u.name # v.name) => Has(f[n], u)
        /\ \A u : Has(f[n], u) => Has(us, u) \/ u = v
        /\ (\A u : Has(us, u) /\ u.name = v.name => u.from = "task") => Has(f[n], v)
    <3>1. Unique(us)
      BY <2>3
    <3>. HIDE DEF Inv
    <3>. QED BY <2>1, <3>1, OverrideOne
  <2>5. Taken(f[n], names \cup {v.name})
    <3>1. SUFFICES ASSUME NEW x \in names \cup {v.name},
                          \A u : Has(vs, u) /\ u.name = x => u.from = "task"
                   PROVE  Has(f[n], Volume(x, "instance"))
      OBVIOUS
    <3>2. CASE x \in names
      <4>1. Has(us, Volume(x, "instance"))
        BY <2>3, <3>1, <3>2
      <4>2. Volume(x, "instance").from # "task"
        BY DEF Volume
      <4>. QED BY <2>4, <4>1, <4>2
    <3>3. CASE x \notin names
      <4>1. x = v.name
        BY <3>3
      <4>2. \A u : Has(us, u) /\ u.name = v.name => u.from = "task"
        BY <2>3, <3>1, <3>3, <4>1
      <4>. QED BY <2>1, <2>4, <4>1, <4>2
    <3>. QED BY <3>2, <3>3
  <2>6. Inv(f[n], NamesUpTo(more, n))
    <3>1. /\ NamesOf(f[n]) = NamesOf(vs) \cup (names \cup {v.name})
          /\ \A u : Has(f[n], u) /\ u.name \notin names \cup {v.name} => Has(vs, u)
          /\ Kept(f[n], names \cup {v.name})
      BY <2>3, <2>4
    <3>. QED BY <2>2, <2>4, <2>5, <3>1
  <2>. HIDE DEF Inv
  <2>. QED BY <2>3, <2>6
<1>5. N \in T
  <2>. T \in SUBSET Nat
    OBVIOUS
  <2>. HIDE DEF T
  <2>. QED BY <1>1, <1>3, <1>4, Overriding!Turns
<1>. QED BY <1>1, <1>2, <1>5, NamesAtEnd

-----------------------------------------------------------------------------
(* The reserved volumes, and those of the integrations *)

LEMMA BaseVolumes ==
  /\ Base \in Seq(Volumes) /\ Unique(Base) /\ NamesOf(Base) = Reserved
  /\ \A r \in Reserved : Has(Base, Volume(r, "reserved"))
<1>. DEFINE S == {Volume(r, "reserved") : r \in Reserved}
            F == [r \in Reserved |-> Volume(r, "reserved")]
            N == Cardinality(S)
<1>1. IsFiniteSet(S)
  <2>1. F \in Surjection(Reserved, S)
    BY DEF Surjection
  <2>2. IsFiniteSet(Reserved)
    BY PodAssumption
  <2>. HIDE DEF F, S
  <2>. QED BY <2>1, <2>2, FS_Surjection
<1>2. N \in Nat /\ \E f \in [1..N -> S] : IsInjective(f)
  <2>. HIDE DEF S
  <2>1. Cardinality(S) \in Nat /\ ExistsBijection(1..Cardinality(S), S)
    BY <1>1, FS_CardinalityType
  <2>. QED BY <2>1 DEF ExistsBijection, Bijection, Injection
<1>3. Base \in [1..N -> S] /\ IsInjective(Base)
  <2>1. Base = CHOOSE f \in [1..N -> S] : IsInjective(f)
    BY DEF Base, SetToSeq
  <2>. HIDE DEF N, S
  <2>. QED BY <1>2, <2>1
<1>4. \A v \in S : \E n \in 1..N : Base[n] = v
  <2>1. Base \in Injection(1..N, S)
    BY <1>3 DEF Injection
  <2>2. Cardinality(1..N) = N
    BY <1>2, FS_Interval
  <2>. HIDE DEF S
  <2>3. Base \in Surjection(1..N, S)
    BY <1>1, <2>1, <2>2, FS_Injection
  <2>. QED BY <2>3 DEF Surjection
<1>5. S \subseteq Volumes /\ \A v \in S : v.name \in Reserved /\ v = Volume(v.name, "reserved")
  BY DEF Volume, Volumes, Names
<1>. HIDE DEF N
<1>6. Base \in Seq(Volumes) /\ DOMAIN Base = 1..N
  <2>. HIDE DEF S
  <2>1. \A n \in 1..N : Base[n] \in Volumes
    BY <1>3, <1>5
  <2>. QED BY <1>2, <1>3, <2>1
<1>7. Unique(Base)
  <2>. HIDE DEF S
  <2>1. ASSUME NEW m \in 1..N, NEW n \in 1..N, Base[m].name = Base[n].name PROVE m = n
    <3>1. Base[m] = Base[n]
      BY <1>3, <1>5, <2>1
    <3>. QED BY <1>3, <3>1 DEF IsInjective
  <2>. QED BY <1>6, <2>1 DEF Unique
<1>8. \A r \in Reserved : Has(Base, Volume(r, "reserved"))
  BY <1>4, <1>6 DEF Has
<1>9. NamesOf(Base) = Reserved
  <2>1. \A n \in 1..N : Base[n].name \in Reserved
    BY <1>3, <1>5
  <2>2. \A r \in Reserved : Volume(r, "reserved").name = r
    BY DEF Volume
  <2>. HIDE DEF S
  <2>. QED BY <1>6, <1>8, <2>1, <2>2 DEF NamesOf, Has
<1>. QED BY <1>6, <1>7, <1>8, <1>9

\* Distinct ConfigMaps have volumes of distinct names, none of them reserved.
LEMMA ConfigVolumes ==
  /\ \A c \in ConfigMaps : VolumeOf(c) \in Volumes /\ VolumeOf(c).name = VolumeName[c]
  /\ \A c \in ConfigMaps : VolumeName[c] \notin Reserved
  /\ \A c, d \in ConfigMaps : VolumeName[c] = VolumeName[d] => c = d
BY PodAssumption DEF VolumeOf, Volumes, Names, CMNames

LEMMA GeneratedVolumes ==
  ASSUME NEW i \in IntegrationSpecs
  PROVE  /\ Generated(i.configs) \in Seq(Volumes)
         /\ DOMAIN Generated(i.configs) = DOMAIN i.configs
         /\ \A m \in DOMAIN i.configs :
              /\ i.configs[m].map \in ConfigMaps
              /\ Generated(i.configs)[m] = VolumeOf(i.configs[m].map)
<1>. DEFINE more == Generated(i.configs)
<1>1. /\ DOMAIN more = DOMAIN i.configs
      /\ \A m \in DOMAIN i.configs :
           i.configs[m].map \in ConfigMaps /\ more[m] = VolumeOf(i.configs[m].map)
  <2>1. i.configs \in Seq(ConfigFiles)
    BY DEF IntegrationSpecs
  <2>2. \A m \in DOMAIN i.configs : i.configs[m] \in ConfigFiles
    BY <2>1
  <2>. QED BY <2>2 DEF Generated, ConfigFiles
<1>2. Len(i.configs) \in Nat /\ DOMAIN i.configs = 1..Len(i.configs)
  BY DEF IntegrationSpecs
<1>3. more = [m \in 1..Len(i.configs) |-> more[m]]
  BY <1>2 DEF Generated
<1>4. \A m \in 1..Len(i.configs) : more[m] \in Volumes
  BY <1>1, <1>2, ConfigVolumes
<1>. HIDE DEF more
<1>5. more \in Seq(Volumes)
  BY <1>2, <1>3, <1>4
<1>. QED BY <1>1, <1>5 DEF more

LEMMA ConfigsAdded ==
  ASSUME NEW vs \in Seq(Volumes), Unique(vs), NEW i \in IntegrationSpecs
  PROVE  LET all == AddConfigs(vs, i) IN
         /\ all \in Seq(Volumes) /\ Unique(all)
         /\ NamesOf(all) =
              NamesOf(vs) \cup {VolumeName[i.configs[m].map] : m \in DOMAIN i.configs}
         /\ \A u : Has(vs, u) => Has(all, u)
         /\ \A m \in DOMAIN i.configs :
              VolumeName[i.configs[m].map] \notin NamesOf(vs)
                => Has(all, VolumeOf(i.configs[m].map))
<1>. DEFINE more == Generated(i.configs)
<1>1. /\ more \in Seq(Volumes) /\ DOMAIN more = DOMAIN i.configs
      /\ \A m \in DOMAIN i.configs :
           i.configs[m].map \in ConfigMaps /\ more[m] = VolumeOf(i.configs[m].map)
  BY GeneratedVolumes
<1>. HIDE DEF more
<1>2. NamesOf(more) = {VolumeName[i.configs[m].map] : m \in DOMAIN i.configs}
  BY <1>1, ConfigVolumes DEF NamesOf
<1>3. AddConfigs(vs, i) = FoldLeft(AddNew, vs, more)
  BY DEF AddConfigs, more
<1>4. ASSUME NEW m \in DOMAIN i.configs, VolumeName[i.configs[m].map] \notin NamesOf(vs)
      PROVE  Has(AddConfigs(vs, i), VolumeOf(i.configs[m].map))
  <2>. DEFINE all == FoldLeft(AddNew, vs, more)
  <2>1. \A x \in NamesOf(more) \ NamesOf(vs) :
          \E k \in DOMAIN more : more[k].name = x /\ Has(all, more[k])
    BY <1>1, Added
  <2>. HIDE DEF all
  <2>2. VolumeName[i.configs[m].map] \in NamesOf(more) \ NamesOf(vs)
    BY <1>2, <1>4
  <2>3. PICK k \in DOMAIN more : /\ more[k].name = VolumeName[i.configs[m].map]
                                 /\ Has(all, more[k])
    BY <2>1, <2>2
  <2>4. i.configs[k].map = i.configs[m].map
    BY <1>1, <2>3, ConfigVolumes
  <2>. QED BY <1>1, <1>3, <2>3, <2>4 DEF all
<1>5. LET all == FoldLeft(AddNew, vs, more) IN
      /\ all \in Seq(Volumes) /\ Unique(all)
      /\ NamesOf(all) = NamesOf(vs) \cup NamesOf(more)
      /\ \A u : Has(vs, u) => Has(all, u)
  BY <1>1, Added
<1>. QED BY <1>2, <1>3, <1>4, <1>5

\* The ConfigMaps that the first n integrations ask for.
Asked(is, n) ==
  {c \in ConfigMaps : \E k \in 1..n : \E m \in DOMAIN is[k].configs : is[k].configs[m].map = c}

LEMMA AskedGrows ==
  ASSUME NEW is, NEW n \in Nat \ {0},
         \A m \in DOMAIN is[n].configs : is[n].configs[m].map \in ConfigMaps
  PROVE  Asked(is, n) = Asked(is, n - 1) \cup {is[n].configs[m].map : m \in DOMAIN is[n].configs}
<1>1. \A k : k \in 1..n <=> k \in 1..(n - 1) \/ k = n
  OBVIOUS
<1>. QED BY <1>1 DEF Asked

LEMMA AddConfigsTypes ==
  ASSUME NEW vs \in Seq(Volumes), NEW i \in IntegrationSpecs
  PROVE  AddConfigs(vs, i) \in Seq(Volumes)
<1>. DEFINE more == Generated(i.configs)
<1>1. more \in Seq(Volumes)
  BY GeneratedVolumes
<1>2. \A x \in Seq(Volumes), v \in Volumes : AddNew(x, v) \in Seq(Volumes)
  BY DEF AddNew
<1>. HIDE DEF more
<1>3. \E f \in [0..Len(more) -> Seq(Volumes)] :
        /\ f[0] = vs
        /\ \A n \in 1..Len(more) : f[n] = AddNew(f[n - 1], more[n])
        /\ f[Len(more)] = Adding!FoldLeft(AddNew, vs, more)
  BY <1>1, <1>2, Adding!FoldIsLoop
<1>4. Len(more) \in 0..Len(more)
  BY <1>1
<1>5. Adding!FoldLeft(AddNew, vs, more) \in Seq(Volumes)
  BY <1>3, <1>4
<1>. QED BY <1>5, SameFolds DEF AddConfigs, more

\* After the integrations there is a volume for each reserved name and for each
\* ConfigMap that is asked for, and no other.
LEMMA Configured ==
  ASSUME NEW is \in Seq(IntegrationSpecs)
  PROVE  LET all == FoldLeft(AddConfigs, Base, is) IN
         /\ all \in Seq(Volumes) /\ Unique(all)
         /\ NamesOf(all) = Reserved \cup {VolumeName[c] : c \in Asked(is, Len(is))}
         /\ \A r \in Reserved : Has(all, Volume(r, "reserved"))
         /\ \A c \in Asked(is, Len(is)) : Has(all, VolumeOf(c))
<1>. DEFINE N == Len(is)
<1>1. N \in Nat /\ DOMAIN is = 1..N /\ \A n \in 1..N : is[n] \in IntegrationSpecs
  OBVIOUS
<1>2. PICK f \in [0..N -> Seq(Volumes)] :
        /\ f[0] = Base
        /\ \A n \in 1..N : f[n] = AddConfigs(f[n - 1], is[n])
        /\ f[N] = FoldLeft(AddConfigs, Base, is)
  <2>1. \A x \in Seq(Volumes), i \in IntegrationSpecs : AddConfigs(x, i) \in Seq(Volumes)
    BY AddConfigsTypes
  <2>2. \E f \in [0..Len(is) -> Seq(Volumes)] :
          /\ f[0] = Base
          /\ \A n \in 1..Len(is) : f[n] = AddConfigs(f[n - 1], is[n])
          /\ f[Len(is)] = Configuring!FoldLeft(AddConfigs, Base, is)
    BY <2>1, BaseVolumes, Configuring!FoldIsLoop
  <2>. QED BY <2>2, SameFolds
<1>. DEFINE Inv(us, asked) ==
       /\ Unique(us)
       /\ NamesOf(us) = Reserved \cup {VolumeName[c] : c \in asked}
       /\ \A r \in Reserved : Has(us, Volume(r, "reserved"))
       /\ \A c \in asked : Has(us, VolumeOf(c))
<1>. DEFINE T == {n \in Nat : Inv(f[n], Asked(is, n))}
<1>3. 0 \in T
  <2>1. Asked(is, 0) = {}
    BY DEF Asked
  <2>. QED BY <1>2, <2>1, BaseVolumes
<1>4. ASSUME NEW n \in 1..N, n - 1 \in T PROVE n \in T
  <2>. DEFINE us == f[n - 1]
              asked == Asked(is, n - 1)
              maps == {is[n].configs[m].map : m \in DOMAIN is[n].configs}
  <2>1. us \in Seq(Volumes) /\ is[n] \in IntegrationSpecs /\ f[n] = AddConfigs(us, is[n])
    BY <1>1, <1>2
  <2>2. n \in Nat /\ Inv(us, asked) /\ asked \subseteq ConfigMaps
    BY <1>4 DEF Asked
  <2>3. \A m \in DOMAIN is[n].configs : is[n].configs[m].map \in ConfigMaps
    BY <2>1, GeneratedVolumes
  <2>4. Asked(is, n) = asked \cup maps
    BY <2>3, AskedGrows
  <2>. HIDE DEF us, asked
  <2>5. /\ Unique(f[n])
        /\ NamesOf(f[n]) = NamesOf(us) \cup {VolumeName[is[n].configs[m].map] :
                                              m \in DOMAIN is[n].configs}
        /\ \A u : Has(us, u) => Has(f[n], u)
        /\ \A m \in DOMAIN is[n].configs :
             VolumeName[is[n].configs[m].map] \notin NamesOf(us)
               => Has(f[n], VolumeOf(is[n].configs[m].map))
    <3>1. Unique(us)
      BY <2>2
    <3>2. LET all == AddConfigs(us, is[n]) IN
          /\ all \in Seq(Volumes) /\ Unique(all)
          /\ NamesOf(all) = NamesOf(us) \cup {VolumeName[is[n].configs[m].map] :
                                              m \in DOMAIN is[n].configs}
          /\ \A u : Has(us, u) => Has(all, u)
          /\ \A m \in DOMAIN is[n].configs :
               VolumeName[is[n].configs[m].map] \notin NamesOf(us)
                 => Has(all, VolumeOf(is[n].configs[m].map))
      BY <2>1, <3>1, ConfigsAdded
    <3>. QED BY <2>1, <3>2
  <2>6. NamesOf(f[n]) = Reserved \cup {VolumeName[c] : c \in asked \cup maps}
    BY <2>2, <2>5
  <2>7. ASSUME NEW c \in asked \cup maps PROVE Has(f[n], VolumeOf(c))
    <3>1. CASE c \in asked
      BY <2>2, <2>5, <3>1
    <3>2. CASE c \notin asked
      <4>1. PICK m \in DOMAIN is[n].configs : is[n].configs[m].map = c
        BY <3>2
      <4>2. c \in ConfigMaps
        BY <2>3, <4>1
      <4>3. VolumeName[c] \notin NamesOf(us)
        BY <2>2, <3>2, <4>2, ConfigVolumes
      <4>. QED BY <2>5, <4>1, <4>3
    <3>. QED BY <3>1, <3>2
  <2>8. Inv(f[n], Asked(is, n))
    BY <2>2, <2>4, <2>5, <2>6, <2>7
  <2>. HIDE DEF Inv
  <2>. QED BY <2>2, <2>8
<1>5. N \in T
  <2>. T \in SUBSET Nat
    OBVIOUS
  <2>. HIDE DEF T
  <2>. QED BY <1>1, <1>3, <1>4, Configuring!Turns
<1>6. N \in 0..N
  BY <1>1
<1>. QED BY <1>2, <1>5, <1>6

-----------------------------------------------------------------------------
(* The Pod *)

\* What the user gives is typed, and its lists of volumes are keyed by name.
LEMMA GivenTypes ==
  ASSUME NEW g \in Given
  PROVE  /\ g.integrations \in Seq(IntegrationSpecs) /\ g.mounts \in Seq(Mountings)
         /\ g.task \in Seq({Volume(n, "task") : n \in Names}) /\ Unique(g.task)
         /\ g.instance \in Seq({Volume(n, "instance") : n \in Names}) /\ Unique(g.instance)
BY PodAssumption DEF Given

LEMMA Wider ==
  ASSUME NEW S, NEW T, S \subseteq T, NEW s \in Seq(S)
  PROVE  s \in Seq(T) /\ \A m \in DOMAIN s : s[m] \in S
OBVIOUS

LEMMA TheOneNamed ==
  ASSUME NEW vs, Unique(vs), NEW v, Has(vs, v)
  PROVE  {vs[k] : k \in {k \in DOMAIN vs : vs[k].name = v.name}} = {v}
BY DEF Has, Unique

\* Which volume a Pod has for each name.
LEMMA TheVolumes ==
  ASSUME NEW g \in Given
  PROVE  LET vs        == MergeVolumes(g.integrations, g.task, g.instance)
             asked     == Asked(g.integrations, Len(g.integrations))
             generated == Reserved \cup {VolumeName[c] : c \in asked}
         IN
         /\ vs \in Seq(Volumes) /\ Unique(vs)
         /\ NamesOf(vs) = generated \cup NamesOf(g.task) \cup NamesOf(g.instance)
         /\ \A r \in Reserved : Has(vs, Volume(r, "reserved"))
         /\ \A c \in asked : Has(vs, VolumeOf(c))
         /\ \A x \in NamesOf(g.instance) \ generated : Has(vs, Volume(x, "instance"))
         /\ \A x \in NamesOf(g.task) \ (generated \cup NamesOf(g.instance)) :
              Has(vs, Volume(x, "task"))
<1>. DEFINE asked     == Asked(g.integrations, Len(g.integrations))
            names     == Reserved \cup {VolumeName[c] : c \in asked}
            generated == FoldLeft(AddConfigs, Base, g.integrations)
            ofTask    == FoldLeft(AddNew, generated, g.task)
            all       == FoldLeft(Override, ofTask, g.instance)
<1>0. MergeVolumes(g.integrations, g.task, g.instance) = all
  BY DEF MergeVolumes
<1>1. /\ generated \in Seq(Volumes) /\ Unique(generated) /\ NamesOf(generated) = names
      /\ \A r \in Reserved : Has(generated, Volume(r, "reserved"))
      /\ \A c \in asked : Has(generated, VolumeOf(c))
  BY GivenTypes, Configured
<1>2. g.task \in Seq(Volumes) /\ \A m \in DOMAIN g.task : g.task[m] = Volume(g.task[m].name, "task")
  <2>. DEFINE S == {Volume(n, "task") : n \in Names}
  <2>1. S \subseteq Volumes
    BY DEF Volume, Volumes
  <2>2. g.task \in Seq(Volumes) /\ \A m \in DOMAIN g.task : g.task[m] \in S
    <3>1. g.task \in Seq(S)
      BY GivenTypes
    <3>. HIDE DEF S
    <3>. QED BY <2>1, <3>1, Wider
  <2>3. \A m \in DOMAIN g.task : g.task[m] = Volume(g.task[m].name, "task")
    BY <2>2 DEF Volume
  <2>. QED BY <2>2, <2>3
<1>. HIDE DEF generated, all
<1>3. /\ ofTask \in Seq(Volumes) /\ Unique(ofTask)
      /\ NamesOf(ofTask) = NamesOf(generated) \cup NamesOf(g.task)
      /\ \A u : Has(generated, u) => Has(ofTask, u)
      /\ \A x \in NamesOf(g.task) \ NamesOf(generated) :
           \E m \in DOMAIN g.task : g.task[m].name = x /\ Has(ofTask, g.task[m])
  BY <1>1, <1>2, Added
<1>. HIDE DEF ofTask, names, asked
<1>4. \A x \in NamesOf(g.task) \ names : Has(ofTask, Volume(x, "task"))
  BY <1>1, <1>2, <1>3
<1>5. /\ all \in Seq(Volumes) /\ Unique(all)
      /\ NamesOf(all) = NamesOf(ofTask) \cup NamesOf(g.instance)
      /\ \A u : Has(ofTask, u) /\ (u.from # "task" \/ u.name \notin NamesOf(g.instance))
                  => Has(all, u)
      /\ \A x \in NamesOf(g.instance) :
           (\A u : Has(ofTask, u) /\ u.name = x => u.from = "task")
             => Has(all, Volume(x, "instance"))
  BY <1>3, GivenTypes, Overridden DEF all
<1>6. \A r \in Reserved : Has(all, Volume(r, "reserved"))
  <2>1. \A r : Volume(r, "reserved").from # "task"
    BY DEF Volume
  <2>. QED BY <1>1, <1>3, <1>5, <2>1
<1>7. \A c \in asked : Has(all, VolumeOf(c))
  <2>1. \A c : VolumeOf(c).from # "task"
    BY DEF VolumeOf
  <2>. QED BY <1>1, <1>3, <1>5, <2>1
<1>8. ASSUME NEW x \in NamesOf(g.instance) \ names
      PROVE  Has(all, Volume(x, "instance"))
  <2>1. ASSUME NEW u, Has(ofTask, u), u.name = x PROVE u.from = "task"
    <3>1. x \in NamesOf(g.task)
      <4>1. x \in NamesOf(ofTask)
        BY <2>1 DEF Has, NamesOf
      <4>. QED BY <1>1, <1>3, <4>1
    <3>2. Has(ofTask, Volume(x, "task")) /\ Volume(x, "task").name = x
      BY <1>4, <3>1 DEF Volume
    <3>3. u = Volume(x, "task")
      BY <1>3, <2>1, <3>2 DEF Has, Unique
    <3>. QED BY <3>3 DEF Volume
  <2>. QED BY <1>5, <2>1
<1>9. ASSUME NEW x \in NamesOf(g.task) \ (names \cup NamesOf(g.instance))
      PROVE  Has(all, Volume(x, "task"))
  <2>1. Has(ofTask, Volume(x, "task")) /\ Volume(x, "task").name = x
    BY <1>4 DEF Volume
  <2>. QED BY <1>5, <2>1
<1>. QED BY <1>0, <1>1, <1>3, <1>5, <1>6, <1>7, <1>8, <1>9 DEF names, asked

LEMMA VolumesAreRightful ==
  ASSUME given \in Given, pod = BuildPod(given)
  PROVE  VolumesByPrecedence
<1>. DEFINE vs        == pod.volumes
            asked     == Asked(given.integrations, Len(given.integrations))
            generated == Reserved \cup {VolumeName[c] : c \in asked}
            Named(n)  == {vs[k] : k \in {k \in DOMAIN vs : vs[k].name = n}}
            Maps(n)   == {c \in ConfigMaps : VolumeName[c] = n /\
                            \E k \in DOMAIN given.integrations :
                              \E m \in DOMAIN given.integrations[k].configs :
                                given.integrations[k].configs[m].map = c}
<1>1. vs = MergeVolumes(given.integrations, given.task, given.instance)
  BY DEF BuildPod
<1>2. /\ Unique(vs)
      /\ NamesOf(vs) = generated \cup NamesOf(given.task) \cup NamesOf(given.instance)
      /\ \A r \in Reserved : Has(vs, Volume(r, "reserved"))
      /\ \A c \in asked : Has(vs, VolumeOf(c))
      /\ \A x \in NamesOf(given.instance) \ generated : Has(vs, Volume(x, "instance"))
      /\ \A x \in NamesOf(given.task) \ (generated \cup NamesOf(given.instance)) :
           Has(vs, Volume(x, "task"))
  BY <1>1, TheVolumes
<1>3. \A n : Maps(n) = {c \in asked : VolumeName[c] = n}
  <2>1. DOMAIN given.integrations = 1..Len(given.integrations)
    BY GivenTypes
  <2>. QED BY <2>1 DEF Asked
<1>4. asked \subseteq ConfigMaps
  BY DEF Asked
<1>. HIDE DEF vs, asked, Maps
<1>5. ASSUME NEW n \in Names PROVE Named(n) = Rightful(n)
  <2>1. Rightful(n) =
          CASE n \in Reserved -> {Volume(n, "reserved")}
            [] n \notin Reserved /\ Maps(n) # {} -> {VolumeOf(c) : c \in Maps(n)}
            [] OTHER -> IF n \in NamesOf(given.instance) THEN {Volume(n, "instance")}
                        ELSE IF n \in NamesOf(given.task) THEN {Volume(n, "task")} ELSE {}
    BY DEF Rightful, Maps
  <2>2. ASSUME NEW v, Has(vs, v), v.name = n PROVE Named(n) = {v}
    BY <1>2, <2>2, TheOneNamed
  <2>. HIDE DEF Named
  <2>3. CASE n \in Reserved
    <3>1. Volume(n, "reserved").name = n
      BY DEF Volume
    <3>2. Rightful(n) = {Volume(n, "reserved")}
      BY <2>1, <2>3
    <3>. QED BY <1>2, <2>2, <2>3, <3>1, <3>2
  <2>4. CASE n \notin Reserved /\ Maps(n) # {}
    <3>1. PICK c \in asked : c \in Maps(n) /\ VolumeName[c] = n
      BY <1>3, <2>4
    <3>2. Maps(n) = {c}
      BY <1>3, <1>4, <3>1, ConfigVolumes
    <3>3. Named(n) = {VolumeOf(c)}
      BY <1>2, <1>4, <2>2, <3>1, ConfigVolumes
    <3>4. Rightful(n) = {VolumeOf(d) : d \in Maps(n)}
      BY <2>1, <2>4
    <3>. QED BY <3>2, <3>3, <3>4
  <2>5. CASE n \notin Reserved /\ Maps(n) = {}
    <3>1. n \notin generated
      BY <1>3, <2>5
    <3>2. Rightful(n) = IF n \in NamesOf(given.instance) THEN {Volume(n, "instance")}
                        ELSE IF n \in NamesOf(given.task) THEN {Volume(n, "task")} ELSE {}
      BY <2>1, <2>5
    <3>3. CASE n \in NamesOf(given.instance)
      <4>1. Has(vs, Volume(n, "instance")) /\ Volume(n, "instance").name = n
        BY <1>2, <3>1, <3>3 DEF Volume
      <4>. QED BY <2>2, <3>2, <3>3, <4>1
    <3>4. CASE n \notin NamesOf(given.instance) /\ n \in NamesOf(given.task)
      <4>1. Has(vs, Volume(n, "task")) /\ Volume(n, "task").name = n
        BY <1>2, <3>1, <3>4 DEF Volume
      <4>. QED BY <2>2, <3>2, <3>4, <4>1
    <3>5. CASE n \notin NamesOf(given.instance) /\ n \notin NamesOf(given.task)
      <4>1. n \notin NamesOf(vs)
        BY <1>2, <3>1, <3>5
      <4>. QED BY <3>2, <3>5, <4>1 DEF Named, NamesOf
    <3>. QED BY <3>3, <3>4, <3>5
  <2>. QED BY <2>3, <2>4, <2>5
<1>. QED BY <1>2, <1>5 DEF VolumesByPrecedence, vs

\* The mount that stands at a path is the last one of the three lists.
LEMMA LastMount ==
  ASSUME NEW own \in Seq(Mountings), NEW ours \in Seq(Mountings), NEW more \in Seq(Mountings),
         NEW n \in DOMAIN ours,
         \A m \in DOMAIN ours : m > n => ours[m].path # ours[n].path,
         \A m \in DOMAIN more : more[m].path # ours[n].path
  PROVE  LET ms == own \o ours \o more IN
         /\ ours[n].path \in DOMAIN ByPath(ms)
         /\ ByPath(ms)[ours[n].path] = ours[n].name
<1>. DEFINE ms == own \o ours \o more
            at == Len(own) + n
            p  == ours[n].path
<1>1. /\ Len(own) \in Nat /\ Len(ours) \in Nat /\ Len(more) \in Nat
      /\ n \in 1..Len(ours) /\ DOMAIN ours = 1..Len(ours) /\ DOMAIN more = 1..Len(more)
  OBVIOUS
<1>2. /\ DOMAIN ms = 1..(Len(own) + Len(ours) + Len(more))
      /\ \A k \in DOMAIN ms :
           ms[k] = IF k <= Len(own) THEN own[k]
                   ELSE IF k <= Len(own) + Len(ours) THEN ours[k - Len(own)]
                   ELSE more[k - Len(own) - Len(ours)]
  OBVIOUS
<1>. HIDE DEF ms
<1>3. at \in DOMAIN ms /\ ms[at] = ours[n]
  <2>1. at \in DOMAIN ms /\ ~(at <= Len(own)) /\ at <= Len(own) + Len(ours) /\ at - Len(own) = n
    BY <1>1, <1>2
  <2>. QED BY <1>2, <2>1
<1>4. ASSUME NEW k \in DOMAIN ms, ms[k].path = p PROVE k <= at
  <2>1. SUFFICES ASSUME ~(k <= at) PROVE FALSE
    OBVIOUS
  <2>2. k \in Nat /\ ~(k <= Len(own))
    BY <1>1, <1>2, <2>1
  <2>3. CASE k <= Len(own) + Len(ours)
    <3>1. k - Len(own) \in DOMAIN ours /\ k - Len(own) > n
      BY <1>1, <1>2, <2>1, <2>2, <2>3
    <3>2. ms[k] = ours[k - Len(own)]
      BY <1>2, <2>2, <2>3
    <3>. QED BY <1>4, <3>1, <3>2
  <2>4. CASE ~(k <= Len(own) + Len(ours))
    <3>1. k - Len(own) - Len(ours) \in DOMAIN more
      BY <1>1, <1>2, <2>2, <2>4
    <3>2. ms[k] = more[k - Len(own) - Len(ours)]
      BY <1>2, <2>2, <2>4
    <3>. QED BY <1>4, <3>1, <3>2
  <2>. QED BY <2>3, <2>4
<1>. HIDE DEF at
<1>5. p \in {ms[k].path : k \in DOMAIN ms}
  BY <1>3
<1>. DEFINE Stands(k) == ms[k].path = p /\ \A j \in DOMAIN ms : ms[j].path = p => j <= k
<1>6. (CHOOSE k \in DOMAIN ms : Stands(k)) = at
  <2>1. at \in DOMAIN ms /\ Stands(at)
    BY <1>3, <1>4
  <2>2. ASSUME NEW k \in DOMAIN ms, Stands(k) PROVE k = at
    <3>1. k <= at /\ at <= k
      BY <1>3, <1>4, <2>2
    <3>2. k \in Nat /\ at \in Nat
      BY <1>1, <1>2, <1>3
    <3>. QED BY <3>1, <3>2
  <2>. HIDE DEF Stands
  <2>. QED BY <2>1, <2>2
<1>7. ByPath(ms)[p] = ms[CHOOSE k \in DOMAIN ms : Stands(k)].name
  BY <1>5 DEF ByPath
<1>8. p \in DOMAIN ByPath(ms)
  BY <1>5 DEF ByPath
<1>. QED BY <1>3, <1>6, <1>7, <1>8 DEF ms

LEMMA FilesAreThere ==
  ASSUME given \in Given, pod = BuildPod(given)
  PROVE  ConfigsReachTheirContainers
<1>1. SUFFICES
        ASSUME NEW k \in DOMAIN given.integrations,
               NEW n \in DOMAIN given.integrations[k].configs,
               ~PathTaken(given.integrations[k].configs, n)
        PROVE  LET config == given.integrations[k].configs[n] IN
               /\ config.path \in DOMAIN pod.mounts[k]
               /\ pod.mounts[k][config.path] = VolumeName[config.map]
               /\ \E v \in DOMAIN pod.volumes : pod.volumes[v] = VolumeOf(config.map)
  BY DEF ConfigsReachTheirContainers
<1>. DEFINE own     == given.integrations[k].mounts
            configs == given.integrations[k].configs
            ours    == ConfigMounts(configs)
<1>2. given.integrations[k] \in IntegrationSpecs
  <2>1. given.integrations \in Seq(IntegrationSpecs)
    BY GivenTypes
  <2>. QED BY <2>1, Wider
<1>3. own \in Seq(Mountings) /\ configs \in Seq(ConfigFiles) /\ given.mounts \in Seq(Mountings)
  BY <1>2, GivenTypes DEF IntegrationSpecs
<1>4. \A m \in DOMAIN configs : configs[m].map \in ConfigMaps /\ configs[m].path \in Paths
  <2>1. \A m \in DOMAIN configs : configs[m] \in ConfigFiles
    BY <1>3
  <2>. QED BY <2>1 DEF ConfigFiles
<1>5. /\ DOMAIN ours = DOMAIN configs
      /\ \A m \in DOMAIN configs :
           ours[m].path = configs[m].path /\ ours[m].name = VolumeName[configs[m].map]
  BY DEF ConfigMounts
<1>6. ours \in Seq(Mountings)
  <2>1. Len(configs) \in Nat /\ DOMAIN configs = 1..Len(configs)
    BY <1>3
  <2>2. ours = [m \in 1..Len(configs) |->
                  [path |-> configs[m].path, name |-> VolumeName[configs[m].map]]]
    BY <2>1 DEF ConfigMounts
  <2>3. \A m \in 1..Len(configs) :
          [path |-> configs[m].path, name |-> VolumeName[configs[m].map]] \in Mountings
    BY <1>4, <2>1 DEF Mountings, Names, CMNames
  <2>. HIDE DEF ours, configs
  <2>. QED BY <2>1, <2>2, <2>3
<1>7. pod.mounts[k] = ByPath(own \o ours \o given.mounts)
  BY DEF BuildPod, MergeMounts
<1>8. /\ configs[n].path \in DOMAIN pod.mounts[k]
      /\ pod.mounts[k][configs[n].path] = VolumeName[configs[n].map]
  <2>1. /\ \A m \in DOMAIN configs : m > n => configs[m].path # configs[n].path
        /\ \A m \in DOMAIN given.mounts : given.mounts[m].path # configs[n].path
    BY <1>1 DEF PathTaken
  <2>2. n \in DOMAIN configs
    OBVIOUS
  <2>. HIDE DEF own, configs, ours
  <2>3. /\ n \in DOMAIN ours
        /\ \A m \in DOMAIN ours : m > n => ours[m].path # ours[n].path
        /\ \A m \in DOMAIN given.mounts : given.mounts[m].path # ours[n].path
    BY <1>5, <2>1, <2>2
  <2>4. LET ms == own \o ours \o given.mounts IN
        ours[n].path \in DOMAIN ByPath(ms) /\ ByPath(ms)[ours[n].path] = ours[n].name
    BY <1>3, <1>6, <2>3, LastMount
  <2>. QED BY <1>5, <1>7, <2>2, <2>4
<1>9. \E v \in DOMAIN pod.volumes : pod.volumes[v] = VolumeOf(configs[n].map)
  <2>1. configs[n].map \in Asked(given.integrations, Len(given.integrations))
    <3>1. DOMAIN given.integrations = 1..Len(given.integrations)
      BY GivenTypes
    <3>. QED BY <1>4, <3>1 DEF Asked
  <2>2. pod.volumes = MergeVolumes(given.integrations, given.task, given.instance)
    BY DEF BuildPod
  <2>3. Has(pod.volumes, VolumeOf(configs[n].map))
    BY <2>1, <2>2, TheVolumes
  <2>. QED BY <2>3 DEF Has
<1>. QED BY <1>8, <1>9

-----------------------------------------------------------------------------
\* A Pod that is there was built from what the task and the instance say.
PodFromGiven == given \in Given /\ (pod = NoPod \/ pod = BuildPod(given))

\* buildTaskPodSpec is the one place where a Pod's volumes and mounts come from.
THEOREM PodInvariant == PodSpec => []PodFromGiven
<1>1. PodInit => PodFromGiven
  BY DEF PodInit, PodFromGiven
<1>2. PodFromGiven /\ [Build]_podVars => PodFromGiven'
  BY DEF PodFromGiven, Build, podVars
<1>. QED BY <1>1, <1>2, PTL DEF PodSpec

\* However many volumes and integrations there are: a Pod has one volume for each name at
\* most, reserved and generated volumes give way to nothing, and the instance's volume
\* stands in place of the task's.
THEOREM PodVolumes == PodSpec => []VolumesByPrecedence
<1>1. PodFromGiven => VolumesByPrecedence
  BY VolumesAreRightful DEF PodFromGiven, VolumesByPrecedence, Built
<1>. QED BY <1>1, PodInvariant, PTL

\* A file that an integration asks for from a ConfigMap is in its container, for every
\* list of integrations, configs and mounts, unless something else takes its path.
THEOREM PodConfigs == PodSpec => []ConfigsReachTheirContainers
<1>1. PodFromGiven => ConfigsReachTheirContainers
  BY FilesAreThere DEF PodFromGiven, ConfigsReachTheirContainers, Built
<1>. QED BY <1>1, PodInvariant, PTL
=============================================================================
