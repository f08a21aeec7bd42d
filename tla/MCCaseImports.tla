---------------------------- MODULE MCCaseImports ----------------------------
(* Instances of CaseImports: manifests with MFT before and after USN, with   *)
(* overlapping inputs and a malformed entry, and an exported memory image.   *)
EXTENDS CaseImports

CONSTANTS c1, c2
Clients == {c1, c2}

In(kind, files) == [kind |-> kind, files |-> files]
Command(entries, wellFormed, output) ==
  [entries |-> entries, wellFormed |-> wellFormed, output |-> output]

Mft == In("mft", <<"m">>)
Usn == In("usn", <<"u">>)

AllCommands ==
  { Command(<<Mft, Usn>>, <<TRUE, TRUE>>, None),
    Command(<<In("evtx", <<"x", "y">>), Mft>>, <<TRUE, FALSE>>, None),
    Command(<<In("evtx", <<"x", "x">>), Usn>>, <<TRUE, TRUE>>, None),
    Command(<<In("memory", <<"a">>)>>, <<TRUE>>, "events.json") }
=============================================================================
