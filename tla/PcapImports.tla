----------------------------- MODULE PcapImports -----------------------------
(***************************************************************************)
(* PcapAdapter.load_file: captures decoded by TShark become events of their *)
(* packets and flows, and the bodies of HTTP messages become files of the   *)
(* workspace, named by the capture and the digest of the body, which every  *)
(* import of that capture shares.                                           *)
(*                                                                          *)
(* A packet is [proto, stream, ends, time, flag, kinds, body, sound, good]: *)
(* ends is <<source, destination>> or None without TCP or UDP over IP,      *)
(* kinds the protocols among dns, http and tls it shows, body the digest of *)
(* the body it completes or None, sound when that is one body of the        *)
(* declared length and within the bound, good when its fields are valid.    *)
(* Lengths, and the fields an event only copies, are left out.              *)
(***************************************************************************)
EXTENDS Naturals, Sequences, FiniteSets, Functions

CONSTANTS
  None,
  Imports      \* functions from the requests and processes that import captures to the
               \* capture of each, a sequence of packets that stands for its own hash

VARIABLES
  created,     \* the body files that exist, <<capture, body>>
  whole,       \* those of them that hold all the bytes
  import       \* what each importer is doing, see Fresh

vars == <<created, whole, import>>

Fresh(capture) ==
  [ pc |-> "recover", capture |-> capture, at |-> 1, body |-> None, warnings |-> {},
    flows |-> <<>>, events |-> {}, batch |-> {}, status |-> "FAILED" ]
Resting(capture, status) == [Fresh(capture) EXCEPT !.pc = "done", !.status = status]

Importers == DOMAIN import
Packet(i) == import[i].capture[import[i].at]
File(i) == <<import[i].capture, Packet(i).body>>
InPacket(i) == import[i].at <= Len(import[i].capture)

-----------------------------------------------------------------------------
(* Flows *)

\* Mutant: TShark's stream number is left out of the key.
KeyOfEnds(p) == <<p.proto, {p.ends[1], p.ends[2]}>>

\* A flow has a protocol, a stream and two ends, in either direction.
FlowKey(p) == <<p.proto, p.stream, {p.ends[1], p.ends[2]}>>

Smaller(a, b) == IF a <= b THEN a ELSE b
Larger(a, b) == IF a <= b THEN b ELSE a

\* Mutant: captures are taken to be in order of time.
Append1(flow, p, frame) ==
  [flow EXCEPT !.end = p.time, !.frames = Append(@, frame), !.flags = @ \cup {p.flag}]

Extended(flow, p, frame) ==
  [ flow EXCEPT !.start = Smaller(@, p.time), !.end = Larger(@, p.time),
                !.frames = Append(@, frame), !.flags = @ \cup {p.flag} ]

NewFlow(p) ==
  [ network |-> <<p.proto, p.stream, p.ends>>, start |-> p.time, end |-> p.time,
    frames |-> <<>>, flags |-> {} ]

WithPacket(flows, p, frame) ==
  LET flow == IF FlowKey(p) \in DOMAIN flows THEN flows[FlowKey(p)] ELSE NewFlow(p)
  IN  [key \in DOMAIN flows \cup {FlowKey(p)} |->
         IF key = FlowKey(p) THEN Extended(flow, p, frame) ELSE flows[key]]

FlowState(flow) ==
  IF "rst" \in flow.flags THEN "RST observed"
  ELSE IF "fin" \in flow.flags THEN "FIN observed" ELSE "observed packets"

FlowEvent(flow) ==
  [ kind |-> "flow", frame |-> flow.frames[1], network |-> flow.network, body |-> None,
    start |-> flow.start, end |-> flow.end, frames |-> flow.frames,
    state |-> FlowState(flow) ]

PacketEvents(p, frame, body) ==
  {[ kind |-> k, frame |-> frame, network |-> <<p.proto, p.stream, p.ends>>,
     body |-> IF k = "http" THEN body ELSE None, start |-> p.time, end |-> p.time,
     frames |-> <<frame>>, state |-> None ] : k \in p.kinds}

-----------------------------------------------------------------------------
(* load_file *)

Init ==
  /\ created = {}
  /\ whole = {}
  /\ \E given \in Imports : import = [i \in DOMAIN given |-> Resting(given[i], "FAILED")]

\* An importer imports its capture, once or again.
\* TShark is missing, fails or takes too long, or its output is read row by row.
Start(i) ==
  /\ import[i].pc = "done"
  /\ \E next \in {Fresh(import[i].capture), Resting(import[i].capture, "UNAVAILABLE"),
                  Resting(import[i].capture, "FAILED")} :
       import' = [import EXCEPT ![i] = next]
  /\ UNCHANGED <<created, whole>>

\* What is recovered of the packet's body, and the warnings about it.
Settle(i, body, warnings) ==
  import' = [import EXCEPT ![i].pc = "associate", ![i].body = body,
                           ![i].warnings = @ \cup warnings]

\* open("xb"): the file is created empty unless it exists.
RecoverBody(i) ==
  /\ import[i].pc = "recover"
  /\ InPacket(i)
  /\ \/ /\ Packet(i).body = None
        /\ Settle(i, None, {})
        /\ UNCHANGED created
     \/ /\ Packet(i).body # None /\ ~Packet(i).sound
        /\ Settle(i, None, {"unclear"})
        /\ UNCHANGED created
     \/ /\ Packet(i).body # None /\ Packet(i).sound
        /\ created' = created \cup {File(i)}
        /\ import' = [import EXCEPT ![i].pc = IF File(i) \in created THEN "verify" ELSE "write"]
  /\ UNCHANGED whole

WriteBody(i) ==
  /\ import[i].pc = "write"
  /\ whole' = whole \cup {File(i)}
  /\ Settle(i, Packet(i).body, {})
  /\ UNCHANGED created

\* The disk is full: what was written stays.
WriteFails(i) ==
  /\ import[i].pc = "write"
  /\ Settle(i, None, {"disk"})
  /\ UNCHANGED <<created, whole>>

\* Mutant: a file that exists is taken to be the body.
TrustBody(i) ==
  /\ import[i].pc = "verify"
  /\ Settle(i, Packet(i).body, {})
  /\ UNCHANGED <<created, whole>>

\* Mutant: a body that fails its verification is dropped in silence.
DropBody(i) ==
  /\ import[i].pc = "verify"
  /\ Settle(i, IF File(i) \in whole THEN Packet(i).body ELSE None, {})
  /\ UNCHANGED <<created, whole>>

\* An existing file is compared with the body, by size and digest.
VerifyBody(i) ==
  /\ import[i].pc = "verify"
  /\ \/ /\ File(i) \in whole
        /\ Settle(i, Packet(i).body, {})
     \/ /\ File(i) \notin whole
        /\ Settle(i, None, {"integrity"})
  /\ UNCHANGED <<created, whole>>

\* The packet joins its flow and yields its events; an invalid one ends the import.
AssociatePacket(i) ==
  /\ import[i].pc = "associate"
  /\ LET p == Packet(i)
     IN  \/ /\ ~p.good
            /\ import' = [import EXCEPT ![i] = Resting(@.capture, "FAILED")]
         \/ /\ p.good /\ p.ends = None
            /\ import' = [import EXCEPT ![i].pc = "recover", ![i].at = @ + 1]
         \/ /\ p.good /\ p.ends # None
            /\ import' = [import EXCEPT
                 ![i].pc = "recover", ![i].at = @ + 1,
                 ![i].flows = WithPacket(@, p, import[i].at),
                 ![i].events = @ \cup PacketEvents(p, import[i].at, import[i].body)]
  /\ UNCHANGED <<created, whole>>

\* All rows are read: the flows become events and the batch is complete.
Finish(i) ==
  /\ import[i].pc = "recover"
  /\ ~InPacket(i)
  /\ \/ /\ import[i].capture = <<>>
        /\ import' = [import EXCEPT ![i] = Resting(@.capture, "FAILED")]
     \/ /\ import[i].capture # <<>>
        /\ import' = [import EXCEPT ![i].pc = "done", ![i].status = "SUCCESS",
             ![i].batch = import[i].events \cup {FlowEvent(f) : f \in Range(import[i].flows)}]
  /\ UNCHANGED <<created, whole>>

\* The process ends in the middle; the files of the workspace stay.
Kill(i) ==
  /\ import[i].pc # "done"
  /\ import' = [import EXCEPT ![i] = Resting(@.capture, "FAILED")]
  /\ UNCHANGED <<created, whole>>

Next ==
  \E i \in Importers :
    \/ Start(i) \/ RecoverBody(i) \/ WriteBody(i) \/ WriteFails(i) \/ VerifyBody(i)
    \/ AssociatePacket(i) \/ Finish(i) \/ Kill(i)

Spec == Init /\ [][Next]_vars

-----------------------------------------------------------------------------
(* Properties *)

Succeeded == {i \in Importers : import[i].pc = "done" /\ import[i].status = "SUCCESS"}
Frames(capture) == {n \in DOMAIN capture : capture[n].ends # None}
FlowsOf(i) == {e \in import[i].batch : e.kind = "flow"}

\* The variables are of the expected shape; only an import that read a packet
\* and met no invalid one succeeds and has events (load_file).
TypeOK ==
  /\ whole \subseteq created
  /\ \A i \in Importers :
       /\ import[i].pc \in {"recover", "write", "verify", "associate", "done"}
       /\ import[i].at \in 1..Len(import[i].capture) + 1
       /\ import[i].status = "SUCCESS" =>
            import[i].capture # <<>> /\ \A n \in DOMAIN import[i].capture : import[i].capture[n].good
       /\ import[i].batch # {} => import[i].status = "SUCCESS"

\* An event names only body files that hold the whole body, whoever else is
\* importing the same capture or was killed while doing so (_recover_body).
RecoveredBodiesAreWhole ==
  \A i \in Importers : \A e \in import[i].events \cup import[i].batch :
    e.body # None => <<import[i].capture, e.body>> \in whole

\* A body that an import leaves out of its events is reported in its warnings
\* (_packet).
LostBodiesAreReported ==
  \A i \in Succeeded : \A n \in Frames(import[i].capture) :
    LET p == import[i].capture[n]
    IN  "http" \in p.kinds /\ p.body # None /\ import[i].warnings = {} =>
          \E e \in import[i].batch : e.frame = n /\ e.body = p.body

\* Two packets are in one flow exactly if they have protocol, stream and both
\* ends in common, in either direction, and every packet is in one (_packet).
FlowsAreConversations ==
  \A i \in Succeeded : \A n, k \in Frames(import[i].capture) :
    LET p == import[i].capture[n]
        q == import[i].capture[k]
        alike == /\ p.proto = q.proto
                 /\ p.stream = q.stream
                 /\ {p.ends[1], p.ends[2]} = {q.ends[1], q.ends[2]}
    IN  alike <=> \E e \in FlowsOf(i) : n \in Range(e.frames) /\ k \in Range(e.frames)

\* A flow lasts from its earliest to its latest packet, in whatever order the
\* capture has them, and says so if any of them reset or closed it (_flow).
FlowsSpanTheirPackets ==
  \A i \in Succeeded : \A e \in FlowsOf(i) :
    LET packets == {import[i].capture[n] : n \in Range(e.frames)}
    IN  /\ \A p \in packets : e.start <= p.time /\ p.time <= e.end
        /\ \E p, q \in packets : p.time = e.start /\ q.time = e.end
        /\ (\E p \in packets : p.flag = "rst") <=> e.state = "RST observed"
        /\ (\A p \in packets : p.flag = None) <=> e.state = "observed packets"

\* Bodies are recovered whole, or the import says that they are not
\* (_recover_body).
BodiesAreAccountedFor == RecoveredBodiesAreWhole /\ LostBodiesAreReported

\* Flows have the packets, and the times, of one conversation each (_packet).
FlowsMatchPackets == FlowsAreConversations /\ FlowsSpanTheirPackets
=============================================================================
