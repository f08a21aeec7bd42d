----------------------------- MODULE MCDiskImage -----------------------------
(* Values for DiskImage: disks with one or two volumes and every fate of   *)
(* an artifact.                                                              *)
EXTENDS Naturals

CONSTANT None

Item(kind, record, bytes, fate) ==
  [kind |-> kind, record |-> record, bytes |-> bytes, fate |-> fate]
Volume(id, serial, health, found) ==
  [id |-> id, serial |-> serial, health |-> health, found |-> found]
Disk(volumes) == [table |-> "valid", volumes |-> volumes]

Whole == Volume("v1", "s1", "SUCCESS",
  << Item("mft", 0, "m", "parsed"), Item("usn", 1, "u", "parsed"),
     Item("evtx", 2, "e", "corrupt"), Item("prefetch", 3, "p", "unsupported") >>)
First == Volume("v1", "s1", "SUCCESS",
  << Item("mft", 0, "m", "parsed"), Item("prefetch", 3, "p", "parsed") >>)
\* A clone of the first volume: same serial, an MFT too large to extract.
Second == Volume("v2", "s1", "PARTIAL",
  << Item("mft", 0, "n", "oversize"), Item("usn", 1, "u", "parsed") >>)
Broken == Volume("v2", "s2", "FAILED", <<>>)

AllDisks ==
  { Disk(<<Whole>>), Disk(<<First, Second>>), Disk(<<First, Broken>>),
    [table |-> "invalid", volumes |-> <<>>] }

Import(suffix, kinds, volumes, volumeId) ==
  [suffix |-> suffix, kinds |-> kinds, volumes |-> volumes, volumeId |-> volumeId]
AllKinds == {"mft", "usn", "prefetch", "evtx", "amcache"}
AllRequests ==
  { Import("raw", AllKinds, None, None), Import("raw", AllKinds, {"v2"}, "C"),
    Import("raw", {"mft", "usn"}, None, "C"), Import("e01", AllKinds, None, None),
    Import("zip", AllKinds, None, None) }
=============================================================================
