------------------------------- MODULE TaskPod -------------------------------
(***************************************************************************)
(* The volumes and the mounts of the Pod a task runs in for one instance:  *)
(* mergeVolumes and mergeVolumeMounts, put together by buildTaskPodSpec.   *)
(* Volumes come from four places - the reserved ones, those generated for  *)
(* the ConfigMaps of the integrations, the task's and the instance's - and *)
(* only the instance may replace something, and only what is the task's.   *)
(*                                                                         *)
(* A volume is its name, where it comes from and the ConfigMap that it     *)
(* shows, when the operator generates it for one.  The result of           *)
(* mergeVolumeMounts is sorted by path; as no path occurs twice it is kept *)
(* as a function from paths to mounts.                                     *)
(***************************************************************************)
EXTENDS Naturals, Sequences, SequencesExt

CONSTANTS
  Reserved,      \* the names data-base, data-diff and dev-dri
  ConfigMaps,    \* names of ConfigMaps
  VolumeName,    \* ConfigMapVolumeName, for each of them
  UserNames,     \* other names of volumes
  Paths,         \* mount paths
  TaskVolumes, InstanceVolumes,      \* what spec.volumes and instances[].volumes may be
  Integrations,                      \* what spec.integrations may be
  InstanceMounts                     \* what instances[].volumeMounts may be

CMNames == {VolumeName[c] : c \in ConfigMaps}
Names == Reserved \cup CMNames \cup UserNames
NoMap == ""
Volumes ==
  [name : Names, from : {"reserved", "generated", "task", "instance"},
   map : ConfigMaps \cup {NoMap}]
Volume(n, from) == [name |-> n, from |-> from, map |-> NoMap]
VolumeOf(c) == [name |-> VolumeName[c], from |-> "generated", map |-> c]

Mountings == [path : Paths, name : Names]
ConfigFiles == [map : ConfigMaps, path : Paths]
IntegrationSpecs == [configs : Seq(ConfigFiles), mounts : Seq(Mountings)]

NamesOf(vs) == {vs[n].name : n \in DOMAIN vs}
Unique(vs) == \A m, n \in DOMAIN vs : vs[m].name = vs[n].name => m = n

\* The hash that ends the name keeps ConfigMaps apart, as long as its eight digits do not
\* collide, and the prefix cm- keeps them off the reserved names.  Lists of volumes are
\* keyed by name.
ASSUME PodAssumption ==
  /\ IsFiniteSet(Reserved)
  /\ VolumeName \in [ConfigMaps -> STRING]
  /\ \A c, d \in ConfigMaps : VolumeName[c] = VolumeName[d] => c = d
  /\ Reserved \cap CMNames = {}
  /\ \A vs \in TaskVolumes : vs \in Seq({Volume(n, "task") : n \in Names}) /\ Unique(vs)
  /\ \A vs \in InstanceVolumes :
       vs \in Seq({Volume(n, "instance") : n \in Names}) /\ Unique(vs)
  /\ \A is \in Integrations : is \in Seq(IntegrationSpecs)
  /\ \A ms \in InstanceMounts : ms \in Seq(Mountings)

VARIABLES
  given,         \* what the task and the instance say
  pod            \* the Pod's volumes and its containers' mounts

podVars == <<given, pod>>

-----------------------------------------------------------------------------
Base == SetToSeq({Volume(r, "reserved") : r \in Reserved})

AddNew(vs, v) == IF v.name \in NamesOf(vs) THEN vs ELSE Append(vs, v)

\* Mutant: the instance replaces whatever has the name.
OverrideAny(vs, v) ==
  IF v.name \in NamesOf(vs)
  THEN [n \in DOMAIN vs |-> IF vs[n].name = v.name THEN v ELSE vs[n]]
  ELSE Append(vs, v)

\* volOriginTask is the only origin that gives way.
Override(vs, v) ==
  IF v.name \in NamesOf(vs)
  THEN [n \in DOMAIN vs |->
          IF vs[n].name = v.name /\ vs[n].from = "task" THEN v ELSE vs[n]]
  ELSE Append(vs, v)

Generated(configs) == [n \in DOMAIN configs |-> VolumeOf(configs[n].map)]

AddConfigs(vs, integration) == FoldLeft(AddNew, vs, Generated(integration.configs))

MergeVolumes(integrations, taskVolumes, instanceVolumes) ==
  LET generated == FoldLeft(AddConfigs, Base, integrations)
      ofTask    == FoldLeft(AddNew, generated, taskVolumes)
  IN FoldLeft(Override, ofTask, instanceVolumes)

ConfigMounts(configs) ==
  [n \in DOMAIN configs |->
     [path |-> configs[n].path, name |-> VolumeName[configs[n].map]]]

\* byPath: the last mount of a path stands.
ByPath(ms) ==
  [p \in {ms[n].path : n \in DOMAIN ms} |->
     LET at == CHOOSE n \in DOMAIN ms :
                 ms[n].path = p /\ \A k \in DOMAIN ms : ms[k].path = p => k <= n
     IN ms[at].name]

\* Mutant: the integration's own mounts come after those of its configs.
MergeMountsConfigsFirst(own, configs, ofInstance) ==
  ByPath(ConfigMounts(configs) \o own \o ofInstance)

MergeMounts(own, configs, ofInstance) ==
  ByPath(own \o ConfigMounts(configs) \o ofInstance)

BuildPod(g) ==
  [volumes |-> MergeVolumes(g.integrations, g.task, g.instance),
   mounts |-> [k \in DOMAIN g.integrations |->
                 MergeMounts(g.integrations[k].mounts, g.integrations[k].configs,
                             g.mounts)]]

-----------------------------------------------------------------------------
Given ==
  [integrations : Integrations, task : TaskVolumes, instance : InstanceVolumes,
   mounts : InstanceMounts]

NoPod == [volumes |-> <<>>, mounts |-> <<>>]

PodInit == given \in Given /\ pod = NoPod

Build ==
  /\ pod = NoPod
  /\ pod' = BuildPod(given)
  /\ UNCHANGED given

PodSpec == PodInit /\ [][Build]_podVars

-----------------------------------------------------------------------------
Built == pod # NoPod

\* The volume a name should have, in the words of the table in architecture.md:
\* reserved and generated volumes are never overridden, the instance's volume
\* replaces the task's.
Rightful(n) ==
  LET maps == {c \in ConfigMaps : VolumeName[c] = n /\
                 \E k \in DOMAIN given.integrations :
                   \E m \in DOMAIN given.integrations[k].configs :
                     given.integrations[k].configs[m].map = c}
  IN CASE n \in Reserved -> {Volume(n, "reserved")}
       [] n \notin Reserved /\ maps # {} -> {VolumeOf(c) : c \in maps}
       [] OTHER -> IF n \in NamesOf(given.instance) THEN {Volume(n, "instance")}
                   ELSE IF n \in NamesOf(given.task) THEN {Volume(n, "task")} ELSE {}

\* Each name has one volume at most, and it is the rightful one: a reserved or
\* generated volume that gave way would put the container on other data.
VolumesByPrecedence ==
  Built =>
    /\ Unique(pod.volumes)
    /\ \A n \in Names :
         {pod.volumes[k] : k \in {k \in DOMAIN pod.volumes : pod.volumes[k].name = n}}
           = Rightful(n)

\* Something else is asked for at the path of the n-th config of these: by the
\* instance, or by a later config of the same integration.
PathTaken(configs, n) ==
  \/ \E m \in DOMAIN given.mounts : given.mounts[m].path = configs[n].path
  \/ \E m \in DOMAIN configs : m > n /\ configs[m].path = configs[n].path

\* A file that an integration asks for from a ConfigMap is there, unless something
\* else takes its path: the mount names a volume, and that volume is the ConfigMap,
\* although mounts and volumes are merged apart, by different rules.
ConfigsReachTheirContainers ==
  Built =>
    \A k \in DOMAIN given.integrations :
      LET configs == given.integrations[k].configs IN
      \A n \in DOMAIN configs :
        ~PathTaken(configs, n) =>
          /\ configs[n].path \in DOMAIN pod.mounts[k]
          /\ pod.mounts[k][configs[n].path] = VolumeName[configs[n].map]
          /\ \E v \in DOMAIN pod.volumes : pod.volumes[v] = VolumeOf(configs[n].map)
=============================================================================
