---------------------------------- MODULE Usb ----------------------------------
(***************************************************************************)
(* Finding a USB device, as the four systems do it that list device nodes: *)
(* usbfs and hidraw (usb-linux.c), ugen (usb-netbsd.c) and usbdev          *)
(* (usb-freebsd.c); and write_carefully (file.c), with which its pipes are *)
(* written. Devices are plugged and unplugged at any time, and any call    *)
(* may fail.                                                               *)
(*                                                                         *)
(* Vendor and product id are one number; nodes are tried in any order.     *)
(***************************************************************************)
EXTENDS Integers, FiniteSets, Sequences

CONSTANTS System,     \* some of usbfs, hidraw, ugen, usbdev
          Node,       \* device nodes that a system may have
          Bus, BusOf, \* directories of nodes: usbfs only
          Id,         \* ids of devices
          IdHalf,     \* 2^15: ids have sixteen bits
          MaxSize,    \* bytes of a transfer
          MaxSearches \* searches: a bound

ASSUME SystemAssumption == System \subseteq {"usbfs", "hidraw", "ugen", "usbdev"}
ASSUME IdAssumption == IdHalf \in Nat \ {0} /\ Id \subseteq 0..(2 * IdHalf - 1)
ASSUME BusAssumption == BusOf \in [Node -> Bus]
ASSUME BoundAssumption == MaxSize \in Nat /\ MaxSearches \in Nat

None == -1

VARIABLES
  system,
  plugged,  \* the id of the device at every node, or None
  asked,    \* ids that usb-find-device or hid-find-device looks for
  buses,    \* directories still to be read
  todo,     \* nodes of the directory that are still to be tried
  node,     \* the one being tried
  pc,       \* "idle", "root", "bus", "node", "ask", "reopen", "timeout"
  result,   \* of the last search: "none", "found", "error"
  files,    \* descriptors and directories that are open
  handed,   \* descriptors that the program was given and has not closed
  stayed,   \* nodes that have had an asked device ever since the search began,
            \* for which no call failed (not in the code)
  clean,    \* no call on an open file has failed (not in the code)
  searches, \* how many there were (not in the code)
  size,     \* bytes that the write was asked for, 0 once it has failed
  left,     \* those still to be written
  sent      \* the bytes the device has got (not in the code)

search == <<asked, buses, todo, node, pc, result>>
io == <<size, left, sent>>
vars == <<system, plugged, asked, buses, todo, node, pc, result, files, handed,
          stayed, clean, searches, io>>

Init ==
  /\ system \in System
  /\ plugged \in [Node -> Id \cup {None}]
  /\ asked = None /\ buses = {} /\ todo = {} /\ node = None
  /\ pc = "idle" /\ result = "none"
  /\ files = 0 /\ handed = 0 /\ stayed = {} /\ clean = TRUE /\ searches = 0
  /\ size = 0 /\ left = <<>> /\ sent = <<>>

-----------------------------------------------------------------------------
(* The world outside *)

Plug(n, id) ==
  /\ plugged[n] = None
  /\ plugged' = [plugged EXCEPT ![n] = id]
  /\ UNCHANGED <<system, search, files, handed, stayed, clean, searches, io>>
Unplug(n) ==
  /\ plugged[n] # None
  /\ plugged' = [plugged EXCEPT ![n] = None]
  /\ stayed' = stayed \ {n}
  /\ UNCHANGED <<system, search, files, handed, clean, searches, io>>

-----------------------------------------------------------------------------
(* The search *)

Find(id) ==
  /\ pc = "idle" /\ left = <<>> /\ searches < MaxSearches
  /\ asked' = id /\ pc' = "root"
  /\ stayed' = {n \in Node : plugged[n] = id}
  /\ searches' = searches + 1
  /\ UNCHANGED <<system, plugged, buses, todo, node, result, files, handed, clean, io>>

Ends(r) == pc' = "idle" /\ result' = r
Searching(p) == pc = p /\ UNCHANGED <<system, plugged, asked, searches, io>>

\* usbfs: either of the two roots is a directory of buses. usbdev: one
\* directory, which is opened and stays open. The others have fixed names.
Root ==
  /\ Searching("root")
  /\ buses' = IF system = "usbfs" THEN Bus ELSE {}
  /\ todo' = IF system = "usbfs" THEN {} ELSE Node
  /\ files' = IF system \in {"usbfs", "usbdev"} THEN files + 1 ELSE files
  /\ pc' = "node"
  /\ UNCHANGED <<node, result, handed, stayed, clean>>
\* No directory, or it cannot be opened: not found. Only usbfs opens it twice,
\* first to see that it is there: if it is gone then, that is an error.
NoRoot ==
  /\ Searching("root") /\ system \in {"usbfs", "usbdev"}
  /\ Ends("none") /\ stayed' = {}
  /\ UNCHANGED <<buses, todo, node, files, handed, clean>>
RootFails ==
  /\ Searching("root") /\ system = "usbfs"
  /\ Ends("error") /\ stayed' = {}
  /\ UNCHANGED <<buses, todo, node, files, handed, clean>>

\* The directory of a bus is open while its nodes are tried, and closed however
\* that ends; files counts the one above it only.
NextBus(b) ==
  /\ Searching("node") /\ todo = {} /\ b \in buses
  /\ buses' = buses \ {b} /\ todo' = {n \in Node : BusOf[n] = b}
  /\ UNCHANGED <<node, pc, result, files, handed, stayed, clean>>
\* A bus that cannot be opened ends the search: an error.
BusFails(b) ==
  /\ Searching("node") /\ todo = {} /\ b \in buses
  /\ Ends("error") /\ files' = files - 1
  /\ stayed' = {n \in stayed : BusOf[n] # b}
  /\ UNCHANGED <<buses, todo, node, handed, clean>>

Exhausted ==
  /\ Searching("node") /\ todo = {} /\ buses = {}
  /\ Ends("none")
  /\ files' = IF system = "usbfs" THEN files - 1 ELSE files
  /\ UNCHANGED <<buses, todo, node, handed, stayed, clean>>

\* open(dev, O_RDONLY)
Open(n) ==
  /\ Searching("node") /\ n \in todo /\ plugged[n] # None
  /\ node' = n /\ todo' = todo \ {n}
  /\ files' = files + 1 /\ pc' = "ask"
  /\ UNCHANGED <<buses, result, handed, stayed, clean>>
OpenFails(n) ==
  /\ Searching("node") /\ n \in todo
  /\ todo' = todo \ {n} /\ stayed' = stayed \ {n}
  /\ UNCHANGED <<buses, node, pc, result, files, handed, clean>>

\* What the structure that the ids are read into makes of them: those of
\* hidraw are signed, and compared as unsigned numbers of 32 bits.
Seen(id) == IF system = "hidraw" /\ id >= IdHalf THEN None ELSE id

\* The descriptor is read, or the ioctl answers; then the file is closed, and
\* opened again for writing if the ids are those.
\* Mutant: it stays open when it does not match.
FilesIfAsked == IF Seen(plugged[node]) = asked THEN files - 1 ELSE files
FilesAsked == files - 1
Answers ==
  /\ Searching("ask") /\ plugged[node] # None
  /\ files' = FilesAsked
  /\ pc' = IF Seen(plugged[node]) = asked THEN "reopen" ELSE "node"
  /\ UNCHANGED <<buses, todo, node, result, handed, stayed, clean>>

\* A short read, or an ioctl that fails: the next node is tried. Linux leaves
\* the file open.
\* Mutant: no others are tried.
TodoDropped == {}
TodoAfterFailure == todo
NoAnswer ==
  /\ Searching("ask")
  /\ files' = IF system \in {"usbfs", "hidraw"} THEN files ELSE files - 1
  /\ pc' = "node" /\ todo' = TodoAfterFailure
  /\ stayed' = stayed \ {node} /\ clean' = FALSE
  /\ UNCHANGED <<buses, node, result, handed>>

\* open(dev, O_RDWR). Whatever is at the node by now is opened.
Reopen ==
  /\ Searching("reopen") /\ plugged[node] # None
  /\ IF system \in {"ugen", "usbdev"}
     THEN files' = files + 1 /\ pc' = "timeout" /\ UNCHANGED <<result, handed>>
     ELSE /\ Ends("found") /\ handed' = handed + 1
          /\ files' = IF system = "usbfs" THEN files ELSE files + 1
  /\ UNCHANGED <<buses, todo, node, stayed, clean>>
ReopenFails ==
  /\ Searching("reopen")
  /\ Ends("error")
  /\ files' = IF system = "usbfs" THEN files - 1 ELSE files
  /\ UNCHANGED <<buses, todo, node, handed, stayed, clean>>

\* The time-out is set; if that fails, the file stays open.
SetTimeout ==
  /\ Searching("timeout") /\ plugged[node] # None
  /\ Ends("found") /\ handed' = handed + 1
  /\ UNCHANGED <<buses, todo, node, files, stayed, clean>>
TimeoutFails ==
  /\ Searching("timeout")
  /\ Ends("error") /\ clean' = FALSE
  /\ UNCHANGED <<buses, todo, node, files, handed, stayed>>

\* usb-close, hid-close
Close ==
  /\ pc = "idle" /\ handed > 0 /\ left = <<>>
  /\ handed' = handed - 1 /\ files' = files - 1
  /\ UNCHANGED <<system, plugged, search, stayed, clean, searches, io>>

-----------------------------------------------------------------------------
(* Writing *)

\* Byte i of the buffer is i. A write that was interrupted, or would block,
\* is tried again, and so is what a short one leaves.
Buffer(n) == [i \in 1..n |-> i]
StartWrite(n) ==
  /\ pc = "idle" /\ handed > 0 /\ left = <<>>
  /\ size' = n /\ left' = Buffer(n) /\ sent' = <<>>
  /\ UNCHANGED <<system, plugged, search, files, handed, stayed, clean, searches>>

\* Mutant: after a short write the rest is forgotten.
RestForgotten(n) == <<>>
Rest(n) == SubSeq(left, n + 1, Len(left))
WriteSome(n) ==
  /\ n \in 1..Len(left)
  /\ sent' = sent \o SubSeq(left, 1, n)
  /\ left' = Rest(n)
  /\ UNCHANGED <<size, system, plugged, search, files, handed, stayed, clean, searches>>
WriteFails ==
  /\ left # <<>>
  /\ size' = 0 /\ left' = <<>> /\ sent' = <<>>
  /\ UNCHANGED <<system, plugged, search, files, handed, stayed, clean, searches>>

World ==
  \/ \E n \in Node, id \in Id : Plug(n, id)
  \/ \E n \in Node : Unplug(n)
Search ==
  \/ Root \/ NoRoot \/ RootFails \/ Exhausted
  \/ \E b \in Bus : NextBus(b) \/ BusFails(b)
  \/ \E n \in Node : Open(n) \/ OpenFails(n)
  \/ Answers \/ NoAnswer \/ Reopen \/ ReopenFails \/ SetTimeout \/ TimeoutFails
Write == (\E n \in 1..MaxSize : WriteSome(n)) \/ WriteFails
Next ==
  \/ World \/ Search \/ Write \/ Close
  \/ \E id \in Id : Find(id)
  \/ \E n \in 1..MaxSize : StartWrite(n)

Spec == Init /\ [][Next]_vars

-----------------------------------------------------------------------------
(* Properties *)

\* A device that was plugged in all through a search, and for which no call
\* failed, is found, whatever other devices come, go and fail to answer.
NotFoundMeansAbsent == pc = "idle" /\ result = "none" => stayed = {}

\* As long as no device fails to answer, searches leave nothing open but the
\* devices they handed out, and the directory that usbdev never closes.
SearchClosesFiles ==
  pc = "idle" /\ clean =>
    /\ files >= handed
    /\ system # "usbdev" => files = handed
    /\ system = "usbdev" => files <= handed + searches

\* A transfer that is written in pieces, interrupted in between, arrives in
\* order, and complete when the write is over without an error.
BytesOnce ==
  /\ \A i \in 1..Len(sent) : sent[i] = i
  /\ left = <<>> => Len(sent) = size
==============================================================================
