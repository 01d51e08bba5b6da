------------------------------- MODULE Mounts -------------------------------
(* What the coordinator makes of a node's mount list: the usage of its system *)
(* disk (_disk_percent) and of its user volumes (_volumes).  Percentages are  *)
(* kept as used and size; rounding is left out.                               *)
(*                                                                            *)
(* A definition just before the one it resembles is a seeded fault, as in     *)
(* Coordinator.                                                               *)
EXTENDS Naturals, SequencesExt

CONSTANTS
  MountPoint,    \* mount points below /var/mnt/, numbered in string order
  MaxSize        \* bound on the size of a mount

ASSUME MountAssumption == MountPoint \subseteq Nat \ {0} /\ MaxSize \in Nat

\* SYSTEM_DISK_MOUNT, "/var", which comes before all of them.
System == 0

\* device: the filesystem's name begins with /dev/.
Mount == [on : MountPoint \cup {System}, device : BOOLEAN,
          size : 0..MaxSize, available : 0..MaxSize]

NoUsage == [none |-> TRUE]
Usage == [used : 0..MaxSize, size : 1..MaxSize]
Volume == [on : MountPoint, used : 0..MaxSize, size : 1..MaxSize]

UsageOf(m) == [used |-> m.size - m.available, size |-> m.size]
VolumeOf(m) == [on |-> m.on, used |-> m.size - m.available, size |-> m.size]

-----------------------------------------------------------------------------
\* _disk_percent: the first mount of the system disk that has a size.
IsSystemDisk(m) == m.on = System /\ m.size # 0

DiskUsage(mounts) ==
  LET i == SelectInSeq(mounts, IsSystemDisk)
  IN IF i = 0 THEN NoUsage ELSE UsageOf(mounts[i])

\* _volumes: one volume for each mount point, the first that qualifies, in the
\* order of mount points.
QualifiesUnsized(m) == m.on # System /\ m.device
Qualifies(m) == m.on # System /\ m.device /\ m.size # 0

Listed(volumes, m) == \E i \in DOMAIN volumes : volumes[i].on = m.on

AddLast(volumes, m) ==
  IF Qualifies(m)
  THEN Append(SelectSeq(volumes, LAMBDA v : v.on # m.on), VolumeOf(m))
  ELSE volumes
AddVolume(volumes, m) ==
  IF Qualifies(m) /\ ~Listed(volumes, m) THEN Append(volumes, VolumeOf(m))
  ELSE volumes

\* sorted: a reordering, of which there is one where no two have one point.
Sorted(volumes) ==
  LET index == DOMAIN volumes
      order == CHOOSE p \in Bijection(index, index) :
                 \A k, l \in index :
                   k < l => volumes[p[k]].on <= volumes[p[l]].on
  IN [k \in index |-> volumes[order[k]]]

Volumes(mounts) == Sorted(FoldLeft(AddVolume, <<>>, mounts))

-----------------------------------------------------------------------------
\* The reference: volumes are those of the block devices with a size, each
\* point's first, in the order of mount points.
IsVolumesOf(volumes, mounts) ==
  LET blocks == {i \in DOMAIN mounts :
                   mounts[i].on # System /\ mounts[i].device /\ mounts[i].size > 0}
      first(i) == \A j \in blocks : mounts[j].on = mounts[i].on => i <= j
  IN /\ {volumes[k] : k \in DOMAIN volumes} =
          {VolumeOf(mounts[i]) : i \in {j \in blocks : first(j)}}
     /\ \A k, l \in DOMAIN volumes : k < l => volumes[k].on < volumes[l].on

\* A usage of the system disk comes from one of its mounts that has a size,
\* before which there is none.
IsUsageOf(usage, mounts) ==
  IF usage = NoUsage
  THEN \A i \in DOMAIN mounts : mounts[i].on = System => mounts[i].size = 0
  ELSE \E i \in DOMAIN mounts :
         /\ mounts[i].on = System /\ mounts[i].size > 0
         /\ usage = UsageOf(mounts[i])
         /\ \A j \in 1..(i - 1) : mounts[j].on = System => mounts[j].size = 0
=============================================================================
