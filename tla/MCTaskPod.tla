------------------------------ MODULE MCTaskPod ------------------------------
(* Values for the constants of TaskPod: names that collide in every way. *)
EXTENDS TaskPod

LOCAL Lists(f) ==
  {<<>>} \cup {<<Volume(n, f)>> : n \in {"data-diff", "cm-a", "extra"}}
         \cup {<<Volume(m, f), Volume(n, f)>> : m \in {"cm-a", "extra"}, n \in {"data-diff", "more"}}

ReservedNames == {"data-base", "data-diff"}
CMName == [a |-> "cm-a", b |-> "cm-b"]
OfTask == Lists("task")
OfInstance == Lists("instance")
LOCAL ConfigLists ==
  {<<>>, <<[map |-> "a", path |-> "/x"]>>,
   <<[map |-> "a", path |-> "/x"], [map |-> "b", path |-> "/x"]>>,
   <<[map |-> "b", path |-> "/y"], [map |-> "a", path |-> "/x"]>>}
MountLists ==
  {<<>>, <<[path |-> "/x", name |-> "extra"]>>, <<[path |-> "/y", name |-> "cm-a"]>>}
UpToTwo ==
  {<<>>} \cup
  {<<[configs |-> c, mounts |-> m], [configs |-> d, mounts |-> m]>> :
     c \in ConfigLists, d \in ConfigLists, m \in MountLists}
=============================================================================
