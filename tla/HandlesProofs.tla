---------------------------- MODULE HandlesProofs ----------------------------
(***************************************************************************)
(* What Handles promises of objects, files and machines, for any number of *)
(* processes, calls, versions and machines.  The two halves of the         *)
(* invariant share the calls: what a transfer has read is still there when *)
(* it is used, and what a service makes of a machine is on record for the  *)
(* process that asked for it.                                              *)
(***************************************************************************)
EXTENDS Handles, SequenceTheorems, TLAPS

Moving == {"rename", "exists", "backup", "swap", "discard", "restore"}
TransferPc == {"put", "remove", "head", "stat", "fetch", "body"} \cup Moving
ControlPc == {"lookup", "create", "act", "wait", "power"}

\* The types of the variables.
Calling == [pc : {"idle"} \cup TransferPc \cup ControlPc \cup Ended,
            args : {None} \cup UNION {Calls[c] : c \in Caller}, attempt : Nat, pinned : Nat,
            scan : [found : SUBSET Nat, left : SUBSET Nat],
            crc : Data \cup {None}, temp : Data \cup {None, Partial}, backup : Data \cup {None},
            result : Data \cup Nat \cup {None}]
Stored == [data : Data, crc : Data \cup {None}, by : Caller \cup {None}]
State == {"pending", "running", "stopping", "stopped", "deleting", "gone"}
Made == [state : State, token : {None} \cup (Caller \X Nat), by : Caller \cup {None},
         op : Caller \cup {None}, listed : BOOLEAN]
Sights == [listed : SUBSET Nat, once : SUBSET Nat]
TypeOK == /\ service \in Service /\ call \in [Caller -> Calling]
          /\ versions \in Seq(Stored) /\ current \in 0..Len(versions)
          /\ dest \in Data \cup {None} /\ strays \subseteq Data
          /\ machines \in Seq(Made)
          /\ outcome \in [Caller -> {"none", "running", "done", "failed"}]
          /\ seen \in [Caller -> Sights] /\ reached \subseteq Caller
-----------------------------------------------------------------------------
(* Objects and files.                                                      *)

\* What a call knows of the version it is bound to: its checksum while it is
\* read, its contents once they are checked.
Downloads(r, kept) ==
    /\ r.pc \in {"stat", "fetch", "body"} => r.args.op \in {"get", "get_file"}
    /\ r.pc \in Moving => r.args.op = "get_file"
    /\ r.pc \in {"fetch", "body"} \cup Moving =>
           r.pinned \in DOMAIN kept /\ r.crc = kept[r.pinned].crc
    /\ r.pc \in Moving \ {"discard"} => r.temp = kept[r.pinned].data
    /\ r.pc = "discard" => r.result = kept[r.pinned].data
    /\ r.pc \in {"swap", "discard", "restore"} => r.backup # None
    /\ r.pc = "done" /\ r.args.op \in {"get", "get_file"} =>
           r.pinned \in DOMAIN kept /\ r.result = kept[r.pinned].data

\* An upload that has succeeded names a version that is what it should be.
Uploads(r, kept, host) ==
    /\ r.pc \in {"put", "head"} => r.args.op = "put"
    /\ r.pc = "remove" => r.args.op = "remove"
    /\ r.pc = "done" /\ r.args.op = "put" /\ r.args.crc =>
           /\ r.result \in DOMAIN kept /\ kept[r.result].crc = r.args.data
           /\ host # "azure" => kept[r.result].data = r.args.data
TransfersHold == \A c \in Caller : /\ Downloads(call[c], versions)
                                   /\ Uploads(call[c], versions, service)

\* A service that compares a checksum keeps no other with an object.
VersionsAreChecked ==
    service # "azure" => \A v \in DOMAIN versions : versions[v].crc \in {None, versions[v].data}

\* The file there is does not hang on a back-up that is about to be removed.
Kept == dest # None \/ strays # {}
        \/ \E c \in Caller : call[c].backup # None /\ call[c].pc # "discard"
FileIsKept == \A c \in Caller : call[c].pc = "discard" => Kept
-----------------------------------------------------------------------------
(* Machines.                                                               *)

\* The arguments of a call are its own and of the kind of its place; one that
\* controls a machine of EC2 knows which.
Placed(c) ==
    LET r == call[c] IN
    /\ r.pc = "idle" => r = Idle
    /\ r.pc # "idle" => r.args \in Calls[c]
    /\ r.pc \in TransferPc => r.args.op \in Transfer
    /\ r.pc \in ControlPc => r.args.op \in Control
    /\ r.pc = "create" => r.args.op = "create"
    /\ r.pc = "lookup" => service = "aws" /\ r.scan.found \subseteq DOMAIN machines
    /\ r.pc = "power" => service # "aws"
    /\ r.pc \in {"act", "wait"} /\ service = "aws" => r.pinned \in DOMAIN machines
CallsArePlaced == \A c \in Caller : Placed(c)

\* What the pages of a look-up have found was listed at a moment of it, and
\* what is listed all the time has been found or is on a page to come.
Covers(scan, sight) == /\ sight.listed \subseteq scan.found \cup scan.left
                       /\ scan.found \subseteq sight.once

\* The histories follow what is listed, and a process that creates or acts by
\* name has looked it up.
SeenIsRead(c) ==
    /\ Looking(c) => /\ Covers(call[c].scan, seen[c])
                     /\ seen[c].listed \subseteq Named /\ Named \subseteq seen[c].once
    /\ service = "aws" /\ call[c].pc = "create" => NoneListed(seen[c])
    /\ service = "aws" /\ call[c].pc = "act" /\ call[c].args.id = None =>
           OnlyListed(seen[c], call[c].pinned)
SeenHolds == \A c \in Caller : SeenIsRead(c)

\* A process that could have read the state it waits for is on record, and so
\* is one whose operation has ended well.
ReachedIsRead(c) ==
    /\ AtTarget(c) => c \in reached
    /\ service # "aws" /\ call[c].pc = "wait" /\ outcome[c] = "done" => c \in reached
    /\ call[c].pc = "done" /\ call[c].args.op \in Control => c \in reached
ReachedHolds == \A c \in Caller : ReachedIsRead(c)

\* A machine belongs to a call that has sent its request, carries the token of
\* the create that made it and is in a state of the operation on it.
Doing(op) == CASE op \in {"create", "start"} -> {"pending", "running"}
               [] op = "stop" -> {"stopping", "stopped"}
               [] OTHER -> {"deleting"}
Belongs(c, m) ==
    /\ call[c].pc = "idle" \/ call[c].args.op \in Transfer => machines[m].by # c /\ machines[m].op # c
    /\ machines[m].by = c =>
           /\ service = "aws" => machines[m].token = <<c, 0>>
           /\ service # "aws" => call[c].pc # "create"
    /\ machines[m].op = c =>
           call[c].args.op \in Control /\ machines[m].state \in Doing(call[c].args.op)
MachinesBelong == \A c \in Caller, m \in DOMAIN machines : Belongs(c, m)

\* A name of Google or Azure is the name of one machine.
OneOfAName == service # "aws" => \A m, n \in Live : m = n

\* The inductive invariant.
IInv == /\ TypeOK
        /\ TransfersHold /\ VersionsAreChecked /\ FileIsKept
        /\ CallsArePlaced /\ SeenHolds /\ ReachedHolds
        /\ MachinesBelong /\ OneOfAName /\ OneMachinePerCreate /\ NamesFailClosed
-----------------------------------------------------------------------------
(* Calls and their ends.                                                   *)

LEMMA AgainIs ==
    ASSUME NEW l \in Calling, NEW pc \in TransferPc \cup ControlPc
    PROVE  /\ Again(l, pc) \in Calling /\ Again(l, pc).pc \in {pc, "failed"}
           /\ Again(l, pc).args = l.args /\ Again(l, pc).pinned = l.pinned
           /\ Again(l, pc).crc = l.crc /\ Again(l, pc).backup = l.backup
           /\ service = "gcp" => Again(l, pc).pc = "failed"
<1>1. l.attempt + 1 \in Nat
  BY DEF Calling
<1> QED
  BY <1>1 DEF Again, Failed, Calling, Ended

LEMMA EndIs ==
    ASSUME NEW l \in Calling
    PROVE  /\ Failed(l) \in Calling /\ Failed(l).pc = "failed" /\ Failed(l).args = l.args
           /\ Failed(l).backup = l.backup /\ Failed(l).pinned = l.pinned /\ Failed(l).crc = l.crc
           /\ Refused(l) \in Calling /\ Refused(l).pc = "refused" /\ Refused(l).args = l.args
           /\ Refused(l).backup = l.backup /\ Refused(l).pinned = l.pinned /\ Refused(l).crc = l.crc
BY DEF Failed, Refused, Calling, Ended

LEMMA DoneIs ==
    ASSUME NEW l \in Calling, NEW result \in Data \cup Nat \cup {None}
    PROVE  /\ Done(l, result) \in Calling /\ Done(l, result).pc = "done"
           /\ Done(l, result).args = l.args /\ Done(l, result).backup = l.backup
           /\ Done(l, result).pinned = l.pinned /\ Done(l, result).result = result
BY DEF Done, Calling, Ended

\* One call changes.
LEMMA GoIs ==
    ASSUME TypeOK, NEW c \in Caller, NEW r \in Calling, Go(c, r)
    PROVE  /\ call' \in [Caller -> Calling] /\ call'[c] = r /\ service' = service
           /\ \A d \in Caller : d # c => call'[d] = call[d]
BY DEF Go, TypeOK

\* The arguments of a transfer.
LEMMA ArgsOfTransfer ==
    ASSUME IInv, NEW c \in Caller, call[c].pc \in TransferPc
    PROVE  /\ call[c].args \in TransferArgs /\ call[c].args \in Calls[c]
           /\ call[c].args.op \in Transfer /\ call[c].args.data \in Data
           /\ call[c].args.sent \in Data /\ call[c].args.crc \in BOOLEAN
<1>1. call[c].args \in Calls[c] /\ call[c].args.op \in Transfer
  BY DEF IInv, CallsArePlaced, Placed, TransferPc, Moving
<1>2. call[c].args \in TransferArgs
  BY <1>1, StorageAssumption
<1> QED
  BY <1>1, <1>2 DEF TransferArgs

\* A version has contents and, perhaps, a checksum.
LEMMA VersionIs ==
    ASSUME TypeOK, NEW v \in DOMAIN versions
    PROVE  versions[v].data \in Data /\ versions[v].crc \in Data \cup {None}
<1>1. versions[v] \in Stored
  BY DEF TypeOK
<1> QED
  BY <1>1 DEF Stored

\* Transfers and machines have operations and places of their own.
LEMMA Apart == /\ \A op \in Transfer : op \notin Control
               /\ \A pc \in TransferPc : pc \notin ControlPc /\ pc \notin Ended /\ pc # "idle"
               /\ \A pc \in ControlPc : pc \notin Ended /\ pc # "idle"
               /\ "idle" \notin Ended
BY DEF Transfer, Control, TransferPc, Moving, ControlPc, Ended

\* A step of a transfer leaves what holds of the machines.
LEMMA TransferKeepsMachines ==
    ASSUME IInv, NEW c \in Caller, NEW r \in Calling, Go(c, r), UNCHANGED computeVars,
           call[c].pc = "idle" \/ call[c].pc \in TransferPc,
           r.pc \in TransferPc \cup Ended, r.args.op \in Transfer, r.args \in Calls[c]
    PROVE  /\ CallsArePlaced' /\ SeenHolds' /\ ReachedHolds' /\ MachinesBelong'
           /\ OneOfAName' /\ OneMachinePerCreate' /\ NamesFailClosed'
<1>1. /\ call' \in [Caller -> Calling] /\ call'[c] = r /\ service' = service
      /\ \A d \in Caller : d # c => call'[d] = call[d]
      /\ machines' = machines /\ outcome' = outcome /\ seen' = seen /\ reached' = reached
  BY GoIs DEF IInv, computeVars, history
<1>2. r.pc # "idle" /\ r.pc \notin ControlPc /\ r.args.op \notin Control
  BY Apart
<1>3. \A m \in DOMAIN machines : machines[m].by # c /\ machines[m].op # c
  <2>1. call[c].pc = "idle" \/ call[c].args.op \in Transfer
    BY DEF IInv, CallsArePlaced, Placed
  <2> QED
    BY <2>1 DEF IInv, MachinesBelong, Belongs
<1>4. CallsArePlaced'
  BY <1>1, <1>2 DEF IInv, CallsArePlaced, Placed, ControlPc
<1>5. SeenHolds'
  BY <1>1, <1>2 DEF IInv, SeenHolds, SeenIsRead, Looking, Named, Live, ControlPc
<1>6. ReachedHolds'
  BY <1>1, <1>2 DEF IInv, ReachedHolds, ReachedIsRead, AtTarget, Power, Live, ControlPc
<1>7. MachinesBelong'
  BY <1>1, <1>3 DEF IInv, MachinesBelong, Belongs
<1>8. OneOfAName' /\ OneMachinePerCreate'
  BY <1>1 DEF IInv, OneOfAName, OneMachinePerCreate, Live
<1>9. NamesFailClosed'
  BY <1>1, <1>3 DEF IInv, NamesFailClosed
<1> QED
  BY <1>4, <1>5, <1>6, <1>7, <1>8, <1>9

\* What is known of a version stays true when another is stored.
LEMMA VersionsStay ==
    ASSUME NEW r, NEW kept, Downloads(r, versions), Uploads(r, versions, service),
           DOMAIN versions \subseteq DOMAIN kept,
           \A v \in DOMAIN versions : kept[v] = versions[v]
    PROVE  Downloads(r, kept) /\ Uploads(r, kept, service)
<1>1. Downloads(r, kept)
  BY DEF Downloads, Moving
<1>2. Uploads(r, kept, service)
  BY DEF Uploads
<1> QED
  BY <1>1, <1>2

\* A step of a transfer: what it must keep of the object and the files.
LEMMA TransferStep ==
    ASSUME IInv, NEW c \in Caller, NEW r \in Calling, Go(c, r), UNCHANGED computeVars,
           call[c].pc = "idle" \/ call[c].pc \in TransferPc,
           r.pc \in TransferPc \cup Ended, r.args.op \in Transfer, r.args \in Calls[c],
           versions' \in Seq(Stored), current' \in 0..Len(versions'),
           DOMAIN versions \subseteq DOMAIN versions',
           \A v \in DOMAIN versions : versions'[v] = versions[v],
           VersionsAreChecked',
           Downloads(r, versions'), Uploads(r, versions', service),
           dest' \in Data \cup {None}, strays' \subseteq Data,
           Kept => Kept', r.pc = "discard" => Kept'
    PROVE  IInv'
<1>1. /\ call' \in [Caller -> Calling] /\ call'[c] = r /\ service' = service
      /\ \A d \in Caller : d # c => call'[d] = call[d]
  BY GoIs DEF IInv
<1>2. TypeOK'
  BY <1>1 DEF IInv, TypeOK, computeVars, history
<1>3. TransfersHold'
  <2> SUFFICES ASSUME NEW d \in Caller
               PROVE  Downloads(call'[d], versions') /\ Uploads(call'[d], versions', service')
    BY DEF TransfersHold
  <2>1. CASE d = c
    BY <1>1, <2>1
  <2>2. CASE d # c
    <3>1. Downloads(call[d], versions) /\ Uploads(call[d], versions, service)
      BY DEF IInv, TransfersHold
    <3>2. Downloads(call[d], versions') /\ Uploads(call[d], versions', service)
      BY <3>1, VersionsStay
    <3> QED
      BY <1>1, <2>2, <3>2
  <2> QED
    BY <2>1, <2>2
<1>4. FileIsKept'
  BY <1>1 DEF IInv, FileIsKept
<1>5. /\ CallsArePlaced' /\ SeenHolds' /\ ReachedHolds' /\ MachinesBelong'
      /\ OneOfAName' /\ OneMachinePerCreate' /\ NamesFailClosed'
  BY TransferKeepsMachines
<1> QED
  BY <1>2, <1>3, <1>4, <1>5 DEF IInv

\* A call that goes on with its back-up, or has none, takes no file away.
LEMMA QuietIsKept ==
    ASSUME TypeOK, NEW c \in Caller, NEW r \in Calling, Go(c, r), UNCHANGED files,
           r.backup = call[c].backup, r.pc # "discard"
    PROVE  Kept => Kept'
<1>1. /\ call'[c] = r /\ dest' = dest /\ strays' = strays
      /\ \A d \in Caller : d # c => call'[d] = call[d]
  BY GoIs DEF files
<1> QED
  BY <1>1 DEF Kept

\* A step of a transfer that changes nothing but its call.
LEMMA OnlyStep ==
    ASSUME IInv, NEW c \in Caller, NEW r \in Calling, Only(c, r), UNCHANGED computeVars,
           call[c].pc = "idle" \/ call[c].pc \in TransferPc,
           r.pc \in TransferPc \cup Ended, r.args.op \in Transfer, r.args \in Calls[c],
           Downloads(r, versions), Uploads(r, versions, service),
           r.backup = call[c].backup, r.pc # "discard"
    PROVE  IInv' /\ (Kept => Kept')
<1>1. Go(c, r) /\ versions' = versions /\ current' = current /\ UNCHANGED files
      /\ dest' = dest /\ strays' = strays
  BY DEF Only, storageVars, remote, files
<1>2. TypeOK
  BY DEF IInv
<1>3. Kept => Kept'
  BY <1>1, <1>2, QuietIsKept
<1>4. VersionsAreChecked'
  BY <1>1, <1>2, GoIs DEF IInv, VersionsAreChecked
<1>5. IInv'
  <2>1. /\ versions' \in Seq(Stored) /\ current' \in 0..Len(versions')
        /\ dest' \in Data \cup {None} /\ strays' \subseteq Data
    BY <1>1, <1>2 DEF TypeOK
  <2> QED
    BY <1>1, <1>3, <1>4, <2>1, TransferStep
<1> QED
  BY <1>3, <1>5
-----------------------------------------------------------------------------
(* The steps of transfers.                                                 *)

\* A call that has failed, or is to be made again from the same place or from
\* its download.
LEMMA ThrownStep ==
    ASSUME IInv, NEW c \in Caller, NEW r \in Calling, Only(c, r), UNCHANGED computeVars,
           call[c].pc \in TransferPc,
           r.args = call[c].args, r.backup = call[c].backup, r.pinned = call[c].pinned,
           r.crc = call[c].crc,
           \/ r.pc \in {"failed", "refused"}
           \/ r.pc \in {"put", "remove", "head", "stat"} /\ r.pc = call[c].pc
           \/ r.pc = "fetch" /\ call[c].pc \in {"fetch", "body"} \cup Moving
    PROVE  IInv' /\ (Kept => Kept')
<1>1. /\ Downloads(call[c], versions) /\ Uploads(call[c], versions, service)
      /\ r.args.op \in Transfer /\ r.args \in Calls[c]
  BY ArgsOfTransfer DEF IInv, TransfersHold
<1>2. Downloads(r, versions)
  BY <1>1 DEF Downloads, Moving
<1>3. Uploads(r, versions, service)
  BY <1>1 DEF Uploads
<1>4. r.pc \in TransferPc \cup Ended /\ r.pc # "discard"
  BY DEF TransferPc, Ended
<1> QED
  BY <1>1, <1>2, <1>3, <1>4, OnlyStep

LEMMA FailedStep ==
    ASSUME IInv, NEW c \in Caller, call[c].pc \in TransferPc, UNCHANGED computeVars,
           Only(c, Failed(call[c])) \/ Only(c, Refused(call[c]))
    PROVE  IInv' /\ (Kept => Kept')
<1>1. call[c] \in Calling
  BY DEF IInv, TypeOK
<1> QED
  BY <1>1, EndIs, ThrownStep

LEMMA AgainStep ==
    ASSUME IInv, NEW c \in Caller, NEW pc, UNCHANGED computeVars, Only(c, Again(call[c], pc)),
           \/ pc \in {"put", "remove", "head", "stat"} /\ pc = call[c].pc
           \/ pc = "fetch" /\ call[c].pc \in {"fetch", "body"} \cup Moving
    PROVE  IInv' /\ (Kept => Kept')
<1>1. call[c] \in Calling
  BY DEF IInv, TypeOK
<1>2. pc \in TransferPc \cup ControlPc /\ call[c].pc \in TransferPc
  BY DEF TransferPc
<1> QED
  BY <1>1, <1>2, AgainIs, ThrownStep

LEMMA BeginTransferStep ==
    ASSUME IInv, NEW c \in Caller, BeginTransfer(c), UNCHANGED computeVars
    PROVE  IInv' /\ (Kept => Kept')
<1>1. PICK a \in Calls[c] :
          /\ a.op \in Transfer
          /\ Only(c, [Idle EXCEPT !.args = a,
                        !.pc = IF a.op \in {"put", "remove"} THEN a.op ELSE "stat"])
  BY DEF BeginTransfer
<1> DEFINE pc == IF a.op \in {"put", "remove"} THEN a.op ELSE "stat"
           r == [Idle EXCEPT !.args = a, !.pc = pc]
<1>2. pc \in {"put", "remove", "stat"}
  OBVIOUS
<1>3. Idle \in Calling /\ a \in UNION {Calls[d] : d \in Caller}
  BY DEF Idle, Unread, Calling
<1> HIDE DEF pc
<1>4. /\ r \in Calling /\ r.pc = pc /\ r.args = a /\ r.backup = None
  <2>1. r \in Calling
    BY <1>2, <1>3 DEF Calling, TransferPc
  <2> QED
    BY <2>1 DEF Idle
<1>5. call[c].pc = "idle" /\ call[c].backup = None
  BY DEF BeginTransfer, IInv, CallsArePlaced, Placed, Idle
<1> HIDE DEF r
<1>6. Downloads(r, versions)
  BY <1>1, <1>2, <1>4 DEF Downloads, Moving, Transfer, pc
<1>7. Uploads(r, versions, service)
  BY <1>1, <1>2, <1>4 DEF Uploads, pc
<1>8. r.pc \in TransferPc \cup Ended /\ r.pc # "discard"
  BY <1>2, <1>4 DEF TransferPc
<1>9. Only(c, r)
  BY <1>1 DEF r, pc
<1> QED
  BY <1>1, <1>4, <1>5, <1>6, <1>7, <1>8, <1>9, OnlyStep

\* An upload, answered or not: what is stored is what the call sent.
LEMMA PutStep ==
    ASSUME IInv, NEW c \in Caller, Put(c), UNCHANGED computeVars
    PROVE  IInv' /\ (Kept => Kept')
<1> DEFINE l == call[c]
           new == Len(versions) + 1
<1>1. l \in Calling /\ l.pc = "put" /\ l.pc \in TransferPc /\ l.args.op = "put"
  BY DEF Put, IInv, TypeOK, TransfersHold, Uploads, TransferPc
<1>2. CASE Only(c, Refused(l)) \/ Only(c, Failed(l))
  BY <1>1, <1>2, FailedStep
<1>3. CASE Only(c, Again(l, "put"))
  BY <1>1, <1>3, AgainStep
<1>4. CASE /\ Matches(l) /\ Receives(l)
           /\ versions' = Append(versions, Version(l, c)) /\ current' = new
           /\ Go(c, Answered(l, new)) \/ Go(c, Again(l, "put"))
           /\ UNCHANGED files
  <2> DEFINE v == Version(l, c)
  <2>1. /\ versions \in Seq(Stored) /\ Len(versions) \in Nat
        /\ l.args.data \in Data /\ l.args.sent \in Data /\ l.args.crc \in BOOLEAN
        /\ l.args.op \in Transfer /\ l.args \in Calls[c]
    BY <1>1, ArgsOfTransfer DEF IInv, TypeOK
  <2>2. /\ v \in Stored /\ v.data = l.args.sent
        /\ v.crc = IF service = "gcp" THEN l.args.sent ELSE IF l.args.crc THEN l.args.data ELSE None
    BY <2>1 DEF Version, Stored
  <2>3. service # "azure" /\ l.args.crc => l.args.sent = l.args.data
    BY <1>4 DEF Receives
  <2> HIDE DEF v
  <2>4. /\ versions' \in Seq(Stored) /\ current' \in 0..Len(versions')
        /\ new \in DOMAIN versions' /\ versions'[new] = v
        /\ DOMAIN versions \subseteq DOMAIN versions'
        /\ \A u \in DOMAIN versions : versions'[u] = versions[u]
        /\ \A u \in DOMAIN versions' : u = new \/ u \in DOMAIN versions
    BY <1>4, <2>1, <2>2 DEF v
  <2>5. service' = service
    BY <1>4 DEF Go
  <2>6. VersionsAreChecked'
    <3>1. service # "azure" => v.crc \in {None, v.data}
      BY <2>2, <2>3
    <3> QED
      BY <2>4, <2>5, <3>1 DEF IInv, VersionsAreChecked
  <2>7. PICK r \in {Answered(l, new), Again(l, "put")} : Go(c, r)
    BY <1>4
  <2>8. /\ r \in Calling /\ r.args = l.args /\ r.backup = l.backup
        /\ \/ r.pc \in {"put", "head", "failed"}
           \/ r.pc = "done" /\ service = "gcp" /\ r.result = new
    <3>1. CASE r = Again(l, "put")
      BY <1>1, <3>1, AgainIs DEF TransferPc
    <3>2. CASE r = Answered(l, new) /\ service = "gcp"
      <4>1. new \in Data \cup Nat \cup {None}
        BY <2>1
      <4> QED
        BY <1>1, <3>2, <4>1, DoneIs DEF Answered
    <3>3. CASE r = Answered(l, new) /\ service # "gcp"
      BY <1>1, <3>3 DEF Answered, Calling, TransferPc
    <3> QED
      BY <2>7, <3>1, <3>2, <3>3
  <2>9. Downloads(r, versions')
    BY <1>1, <2>8 DEF Downloads, Moving
  <2>10. Uploads(r, versions', service)
    BY <1>1, <2>2, <2>3, <2>4, <2>8 DEF Uploads
  <2>11. r.pc \in TransferPc \cup Ended /\ r.pc # "discard"
    BY <2>8 DEF TransferPc, Ended
  <2>12. TypeOK /\ dest' \in Data \cup {None} /\ strays' \subseteq Data
    BY <1>4 DEF IInv, TypeOK, files
  <2>13. Kept => Kept'
    BY <1>4, <2>7, <2>8, <2>11, <2>12, QuietIsKept
  <2> QED
    BY <1>1, <2>1, <2>4, <2>6, <2>7, <2>8, <2>9, <2>10, <2>11, <2>12, <2>13, TransferStep
<1> QED
  BY <1>2, <1>3, <1>4 DEF Put

\* The HEAD after an upload: the object has the checksum that was sent.
LEMMA HeadObjectStep ==
    ASSUME IInv, NEW c \in Caller, HeadObject(c), UNCHANGED computeVars
    PROVE  IInv' /\ (Kept => Kept')
<1> DEFINE l == call[c]
           r == Done(l, current)
<1>1. /\ l \in Calling /\ l.pc = "head" /\ l.pc \in TransferPc /\ l.args.op = "put"
      /\ versions \in Seq(Stored) /\ current \in 0..Len(versions) /\ current \in Nat
      /\ TypeOK
  BY DEF HeadObject, IInv, TypeOK, TransfersHold, Uploads, TransferPc
<1>2. CASE SameChecksum(l) /\ Only(c, r)
  <2>1. /\ r \in Calling /\ r.pc = "done" /\ r.args = l.args /\ r.backup = l.backup
        /\ r.result = current
    BY <1>1, DoneIs
  <2>2. /\ current \in DOMAIN versions
        /\ l.args.crc => versions[current].crc = l.args.data
    BY <1>1, <1>2 DEF SameChecksum
  <2>3. /\ l.args.data \in Data /\ l.args.op \in Transfer /\ l.args \in Calls[c]
    BY <1>1, ArgsOfTransfer
  <2>4. service # "azure" => versions[current].crc \in {None, versions[current].data}
    BY <2>2 DEF IInv, VersionsAreChecked
  <2> HIDE DEF r
  <2>5. Uploads(r, versions, service)
    BY <1>1, <2>1, <2>2, <2>3, <2>4, StorageAssumption DEF Uploads
  <2>6. Downloads(r, versions)
    BY <1>1, <2>1 DEF Downloads, Moving
  <2>7. r.pc \in TransferPc \cup Ended /\ r.pc # "discard"
    BY <2>1 DEF Ended
  <2> QED
    BY <1>1, <1>2, <2>1, <2>3, <2>5, <2>6, <2>7, OnlyStep
<1>3. CASE Only(c, Failed(l))
  BY <1>1, <1>3, FailedStep
<1>4. CASE Only(c, Again(l, "head"))
  BY <1>1, <1>4, AgainStep
<1> QED
  BY <1>2, <1>3, <1>4 DEF HeadObject

LEMMA RemoveStep ==
    ASSUME IInv, NEW c \in Caller, Remove(c), UNCHANGED computeVars
    PROVE  IInv' /\ (Kept => Kept')
<1> DEFINE l == call[c]
<1>1. /\ l \in Calling /\ l.pc = "remove" /\ l.pc \in TransferPc /\ l.args.op = "remove"
      /\ l.args.op \in Transfer /\ l.args \in Calls[c] /\ TypeOK
  BY ArgsOfTransfer DEF Remove, IInv, TypeOK, TransfersHold, Uploads, TransferPc
<1>2. CASE /\ current' = 0 /\ UNCHANGED <<versions, files>>
           /\ Go(c, Done(l, 0)) \/ Go(c, Again(l, "remove"))
  <2>1. PICK r \in {Done(l, 0), Again(l, "remove")} : Go(c, r)
    BY <1>2
  <2>2. /\ r \in Calling /\ r.args = l.args /\ r.backup = l.backup
        /\ r.pc \in {"done", "remove", "failed"}
    <3>1. 0 \in Data \cup Nat \cup {None}
      OBVIOUS
    <3> QED
      BY <1>1, <2>1, <3>1, DoneIs, AgainIs
  <2>3. Downloads(r, versions') /\ Uploads(r, versions', service)
    BY <1>1, <2>2 DEF Downloads, Uploads, Moving
  <2>4. /\ versions' = versions /\ versions' \in Seq(Stored) /\ current' \in 0..Len(versions')
        /\ dest' \in Data \cup {None} /\ strays' \subseteq Data /\ service' = service
        /\ UNCHANGED files
    BY <1>1, <1>2, <2>1 DEF TypeOK, files, Go
  <2>5. VersionsAreChecked'
    BY <2>4 DEF IInv, VersionsAreChecked
  <2>6. r.pc \in TransferPc \cup Ended /\ r.pc # "discard"
    BY <2>2 DEF TransferPc, Ended
  <2>7. Kept => Kept'
    BY <1>1, <2>1, <2>2, <2>4, <2>6, QuietIsKept
  <2> QED
    BY <1>1, <2>1, <2>2, <2>3, <2>4, <2>5, <2>6, <2>7, TransferStep
<1>3. CASE Only(c, Failed(l))
  BY <1>1, <1>3, FailedStep
<1>4. CASE Only(c, Again(l, "remove"))
  BY <1>1, <1>4, AgainStep
<1> QED
  BY <1>2, <1>3, <1>4 DEF Remove

\* The metadata bind a download to a version.
LEMMA StatStep ==
    ASSUME IInv, NEW c \in Caller, Stat(c), UNCHANGED computeVars
    PROVE  IInv' /\ (Kept => Kept')
<1> DEFINE l == call[c]
           r == [l EXCEPT !.pc = "fetch", !.attempt = 0, !.pinned = current,
                          !.crc = versions[current].crc]
<1>1. /\ l \in Calling /\ l.pc = "stat" /\ l.pc \in TransferPc
      /\ l.args.op \in {"get", "get_file"} /\ l.args.op \in Transfer /\ l.args \in Calls[c]
      /\ TypeOK /\ versions \in Seq(Stored) /\ current \in 0..Len(versions)
  BY ArgsOfTransfer DEF Stat, IInv, TypeOK, TransfersHold, Downloads, TransferPc
<1>2. CASE Only(c, Failed(l))
  BY <1>1, <1>2, FailedStep
<1>3. CASE Only(c, Again(l, "stat"))
  BY <1>1, <1>3, AgainStep
<1>4. CASE current # 0 /\ Only(c, r)
  <2>1. current \in DOMAIN versions /\ current \in Nat
    BY <1>1, <1>4
  <2>2. versions[current].crc \in Data \cup {None}
    BY <1>1, <2>1, VersionIs
  <2>3. /\ r \in Calling /\ r.pc = "fetch" /\ r.args = l.args /\ r.backup = l.backup
        /\ r.pinned = current /\ r.crc = versions[current].crc
    BY <1>1, <2>1, <2>2 DEF Calling, TransferPc
  <2> HIDE DEF r
  <2>4. Downloads(r, versions) /\ Uploads(r, versions, service)
    BY <1>1, <2>1, <2>3 DEF Downloads, Uploads, Moving
  <2>5. r.pc \in TransferPc \cup Ended /\ r.pc # "discard"
    BY <2>3 DEF TransferPc
  <2> QED
    BY <1>1, <1>4, <2>3, <2>4, <2>5, OnlyStep
<1> QED
  BY <1>2, <1>3, <1>4 DEF Stat

LEMMA FetchStep ==
    ASSUME IInv, NEW c \in Caller, Fetch(c), UNCHANGED computeVars
    PROVE  IInv' /\ (Kept => Kept')
<1> DEFINE l == call[c]
           temp == IF l.args.op = "get_file" THEN Partial ELSE None
           r == [l EXCEPT !.pc = "body", !.temp = temp]
<1>1. /\ l \in Calling /\ l.pc = "fetch" /\ l.pc \in TransferPc
      /\ l.args.op \in Transfer /\ l.args \in Calls[c] /\ Downloads(l, versions)
  BY ArgsOfTransfer DEF Fetch, IInv, TypeOK, TransfersHold, TransferPc
<1>2. temp \in Data \cup {None, Partial}
  OBVIOUS
<1> HIDE DEF temp
<1>3. /\ r \in Calling /\ r.pc = "body" /\ r.args = l.args /\ r.backup = l.backup
      /\ r.pinned = l.pinned /\ r.crc = l.crc
  BY <1>1, <1>2 DEF Calling, TransferPc
<1>4. Only(c, r)
  BY DEF Fetch, temp
<1> HIDE DEF r
<1>5. Downloads(r, versions) /\ Uploads(r, versions, service)
  BY <1>1, <1>3 DEF Downloads, Uploads, Moving
<1>6. r.pc \in TransferPc \cup Ended /\ r.pc # "discard"
  BY <1>3 DEF TransferPc
<1> QED
  BY <1>1, <1>3, <1>4, <1>5, <1>6, OnlyStep

\* A body that passes its checksum is the contents of the version.
LEMMA BodyStep ==
    ASSUME IInv, NEW c \in Caller, Body(c), UNCHANGED computeVars
    PROVE  IInv' /\ (Kept => Kept')
<1> DEFINE l == call[c]
<1>1. /\ l \in Calling /\ l.pc = "body" /\ l.pc \in TransferPc
      /\ l.args.op \in {"get", "get_file"}
      /\ l.args.op \in Transfer /\ l.args \in Calls[c] /\ Downloads(l, versions)
      /\ TypeOK /\ l.pinned \in DOMAIN versions
      /\ l.crc = versions[l.pinned].crc
  BY ArgsOfTransfer DEF Body, IInv, TypeOK, TransfersHold, Downloads, TransferPc
<1>2. CASE Only(c, Failed(l))
  BY <1>1, <1>2, FailedStep
<1>3. CASE Only(c, Again(l, "fetch"))
  BY <1>1, <1>3, AgainStep
\* What was received is the contents, or fails its checksum.
<1>4. ASSUME NEW body, Only(c, Received(l, body)),
             body = versions[l.pinned].data \/ ~Checked(l, body)
      PROVE  IInv' /\ (Kept => Kept')
  <2>1. CASE ~Checked(l, body)
    BY <1>1, <1>2, <1>3, <1>4, <2>1 DEF Received
  <2>2. CASE Checked(l, body) /\ l.args.op = "get"
    <3> DEFINE r == Done(l, body)
    <3>1. body = versions[l.pinned].data /\ body \in Data \cup Nat \cup {None} /\ Only(c, r)
      BY <1>1, <1>4, <2>2, VersionIs DEF Received
    <3>2. /\ r \in Calling /\ r.pc = "done" /\ r.args = l.args /\ r.backup = l.backup
          /\ r.pinned = l.pinned /\ r.result = body
      BY <1>1, <3>1, DoneIs
    <3> HIDE DEF r
    <3>3. Downloads(r, versions) /\ Uploads(r, versions, service)
      BY <1>1, <2>2, <3>1, <3>2 DEF Downloads, Uploads, Moving
    <3>4. r.pc \in TransferPc \cup Ended /\ r.pc # "discard"
      BY <3>2 DEF Ended
    <3> QED
      BY <1>1, <3>1, <3>2, <3>3, <3>4, OnlyStep
  <2>3. CASE Checked(l, body) /\ l.args.op # "get"
    <3> DEFINE r == [l EXCEPT !.pc = "rename", !.temp = body]
    <3>1. body = versions[l.pinned].data /\ body \in Data /\ Only(c, r)
      BY <1>1, <1>4, <2>3, VersionIs DEF Received
    <3>2. /\ r \in Calling /\ r.pc = "rename" /\ r.args = l.args /\ r.backup = l.backup
          /\ r.pinned = l.pinned /\ r.temp = body /\ r.crc = l.crc
      BY <1>1, <3>1 DEF Calling, TransferPc, Moving
    <3> HIDE DEF r
    <3>3. Downloads(r, versions) /\ Uploads(r, versions, service)
      BY <1>1, <2>3, <3>1, <3>2 DEF Downloads, Uploads, Moving
    <3>4. r.pc \in TransferPc \cup Ended /\ r.pc # "discard"
      BY <3>2 DEF TransferPc, Moving
    <3> QED
      BY <1>1, <3>1, <3>2, <3>3, <3>4, OnlyStep
  <2> QED
    BY <2>1, <2>2, <2>3
<1>5. l.crc # None => ~Checked(l, Damaged)
  <2>1. versions[l.pinned].crc \in Data \cup {None}
    BY <1>1, VersionIs
  <2> QED
    BY <1>1, <2>1, StorageAssumption DEF Checked
<1> QED
  BY <1>2, <1>3, <1>4, <1>5 DEF Body, Pinned

\* A move that fails leaves the file where it is.
LEMMA MovingStep ==
    ASSUME IInv, NEW c \in Caller, NEW pc, UNCHANGED computeVars,
           Only(c, [call[c] EXCEPT !.pc = pc]),
           \/ call[c].pc = "rename" /\ pc = "exists"
           \/ call[c].pc = "exists" /\ pc = "backup"
           \/ call[c].pc = "swap" /\ pc = "restore"
    PROVE  IInv' /\ (Kept => Kept')
<1> DEFINE l == call[c]
           r == [l EXCEPT !.pc = pc]
<1>1. /\ l \in Calling /\ l.pc \in TransferPc
      /\ l.args.op \in Transfer /\ l.args \in Calls[c] /\ Downloads(l, versions)
  BY ArgsOfTransfer DEF IInv, TypeOK, TransfersHold, TransferPc, Moving
<1>2. /\ r \in Calling /\ r.pc = pc /\ r.args = l.args /\ r.backup = l.backup
      /\ r.pinned = l.pinned /\ r.temp = l.temp /\ r.crc = l.crc
  BY <1>1 DEF Calling, TransferPc, Moving
<1> HIDE DEF r
<1>3. Downloads(r, versions) /\ Uploads(r, versions, service)
  BY <1>1, <1>2 DEF Downloads, Uploads, Moving
<1>4. r.pc \in TransferPc \cup Ended /\ r.pc # "discard"
  BY <1>2 DEF TransferPc, Moving
<1> QED
  BY <1>1, <1>2, <1>3, <1>4, OnlyStep DEF r

\* What a call that moves a file holds.
LEMMA HeldByMove ==
    ASSUME IInv, NEW c \in Caller, call[c].pc \in Moving
    PROVE  /\ call[c] \in Calling /\ call[c].pc \in TransferPc /\ call[c].args.op = "get_file"
           /\ call[c].args.op \in Transfer /\ call[c].args \in Calls[c]
           /\ Downloads(call[c], versions) /\ Uploads(call[c], versions, service)
           /\ call[c].pc # "discard" => call[c].temp \in Data
           /\ call[c].pc = "discard" => call[c].result \in Data
           /\ call[c].pc \in {"swap", "discard", "restore"} => call[c].backup \in Data
<1>1. /\ call[c] \in Calling /\ TypeOK /\ Downloads(call[c], versions)
      /\ Uploads(call[c], versions, service)
  BY DEF IInv, TypeOK, TransfersHold
<1>2. /\ call[c].pc \in TransferPc /\ call[c].args.op = "get_file"
  BY <1>1 DEF TransferPc, Downloads
<1>3. versions[call[c].pinned].data \in Data
  <2>1. call[c].pinned \in DOMAIN versions
    BY <1>1 DEF Downloads
  <2> QED
    BY <1>1, <2>1, VersionIs
<1>4. call[c].pc \in {"swap", "discard", "restore"} => call[c].backup \in Data
  BY <1>1 DEF Downloads, Calling
<1> QED
  BY <1>1, <1>2, <1>3, <1>4, ArgsOfTransfer DEF Downloads, Moving

\* A step that moves a file, and leaves the object.
LEMMA FileStep ==
    ASSUME IInv, NEW c \in Caller, NEW r \in Calling, Go(c, r), UNCHANGED <<remote, computeVars>>,
           call[c].pc \in Moving, r.args = call[c].args, r.pc \in Moving \cup {"fetch", "done", "failed"},
           Downloads(r, versions), dest' \in Data \cup {None}, strays' \subseteq Data,
           Kept => Kept', r.pc = "discard" => Kept'
    PROVE  IInv' /\ (Kept => Kept')
<1>1. /\ call[c].pc \in TransferPc /\ r.args.op = "get_file"
      /\ r.args.op \in Transfer /\ r.args \in Calls[c]
  BY HeldByMove
<1>2. Uploads(r, versions, service) /\ r.pc \in TransferPc \cup Ended
  BY <1>1 DEF Uploads, Moving, TransferPc, Ended
<1>3. /\ versions' = versions /\ current' = current /\ service' = service
      /\ versions' \in Seq(Stored) /\ current' \in 0..Len(versions')
  BY DEF remote, IInv, TypeOK, Go
<1>4. VersionsAreChecked'
  BY <1>3 DEF IInv, VersionsAreChecked
<1> QED
  BY <1>1, <1>2, <1>3, <1>4, TransferStep

LEMMA RenameStep ==
    ASSUME IInv, NEW c \in Caller, Rename(c), UNCHANGED computeVars
    PROVE  IInv' /\ (Kept => Kept')
<1> DEFINE l == call[c]
           t == [l EXCEPT !.temp = None]
           r == Done(t, l.temp)
<1>1. l.pc = "rename" /\ l.pc \in Moving
  BY DEF Rename, Moving
<1>2. CASE dest' = l.temp /\ Go(c, r) /\ UNCHANGED <<remote, strays>>
  <2>1. l \in Calling /\ l.temp \in Data /\ Downloads(l, versions) /\ l.temp # None
    BY <1>1, HeldByMove, StorageAssumption
  <2>2. /\ t \in Calling /\ t.args = l.args /\ t.pinned = l.pinned
    BY <2>1 DEF Calling
  <2> HIDE DEF t
  <2>3. /\ r \in Calling /\ r.pc = "done" /\ r.args = l.args /\ r.pinned = l.pinned
        /\ r.result = l.temp
    BY <2>1, <2>2, DoneIs
  <2> HIDE DEF r
  <2>4. Downloads(r, versions)
    BY <1>1, <2>1, <2>3 DEF Downloads, Moving
  <2>5. Kept' /\ strays' \subseteq Data
    BY <1>2, <2>1 DEF Kept, IInv, TypeOK
  <2> QED
    BY <1>1, <1>2, <2>1, <2>3, <2>4, <2>5, FileStep
<1>3. CASE Only(c, [l EXCEPT !.pc = "exists"])
  BY <1>1, <1>3, MovingStep
<1> QED
  BY <1>2, <1>3 DEF Rename

LEMMA ExistsStep ==
    ASSUME IInv, NEW c \in Caller, Exists(c), UNCHANGED computeVars
    PROVE  IInv' /\ (Kept => Kept')
<1>1. call[c].pc = "exists" /\ call[c].pc \in Moving
  BY DEF Exists, Moving
<1>2. CASE Only(c, [call[c] EXCEPT !.pc = "backup"])
  BY <1>1, <1>2, MovingStep
<1>3. CASE Only(c, Again(call[c], "fetch"))
  BY <1>1, <1>3, AgainStep
<1> QED
  BY <1>2, <1>3 DEF Exists

LEMMA BackupStep ==
    ASSUME IInv, NEW c \in Caller, Backup(c), UNCHANGED computeVars
    PROVE  IInv' /\ (Kept => Kept')
<1> DEFINE l == call[c]
           r == [l EXCEPT !.pc = "swap", !.backup = dest]
<1>1. l.pc = "backup" /\ l.pc \in Moving
  BY DEF Backup, Moving
<1>2. CASE dest # None /\ dest' = None /\ Go(c, r) /\ UNCHANGED <<remote, strays>>
  <2>1. l \in Calling /\ Downloads(l, versions) /\ dest \in Data /\ strays \subseteq Data
    BY <1>1, <1>2, HeldByMove DEF IInv, TypeOK
  <2>2. /\ r \in Calling /\ r.pc = "swap" /\ r.args = l.args /\ r.pinned = l.pinned
        /\ r.crc = l.crc /\ r.temp = l.temp /\ r.backup = dest
    BY <2>1 DEF Calling, TransferPc, Moving
  <2> HIDE DEF r
  <2>3. Downloads(r, versions)
    BY <1>1, <1>2, <2>1, <2>2 DEF Downloads, Moving
  <2>4. Kept'
    BY <1>2, <2>2, GoIs DEF Kept, IInv
  <2>5. r.pc \in Moving
    BY <2>2 DEF Moving
  <2> QED
    BY <1>1, <1>2, <2>1, <2>2, <2>3, <2>4, <2>5, FileStep
<1>3. CASE Only(c, Again(l, "fetch"))
  BY <1>1, <1>3, AgainStep
<1> QED
  BY <1>2, <1>3 DEF Backup

\* The new file takes the place of the old one before the back-up may go.
LEMMA SwapStep ==
    ASSUME IInv, NEW c \in Caller, Swap(c), UNCHANGED computeVars
    PROVE  IInv' /\ (Kept => Kept')
<1> DEFINE l == call[c]
           r == [l EXCEPT !.pc = "discard", !.temp = None, !.result = l.temp]
<1>1. l.pc = "swap" /\ l.pc \in Moving
  BY DEF Swap, Moving
<1>2. CASE dest' = l.temp /\ Go(c, r) /\ UNCHANGED <<remote, strays>>
  <2>1. /\ l \in Calling /\ l.temp \in Data /\ l.backup \in Data /\ Downloads(l, versions)
        /\ l.temp # None
    BY <1>1, HeldByMove, StorageAssumption
  <2>2. /\ r \in Calling /\ r.pc = "discard" /\ r.args = l.args /\ r.pinned = l.pinned
        /\ r.crc = l.crc /\ r.result = l.temp /\ r.backup = l.backup
    BY <2>1 DEF Calling, TransferPc, Moving
  <2> HIDE DEF r
  <2>3. Downloads(r, versions)
    BY <1>1, <2>1, <2>2 DEF Downloads, Moving
  <2>4. Kept' /\ strays' \subseteq Data
    BY <1>2, <2>1 DEF Kept, IInv, TypeOK
  <2>5. r.pc \in Moving
    BY <2>2 DEF Moving
  <2> QED
    BY <1>1, <1>2, <2>1, <2>2, <2>3, <2>4, <2>5, FileStep
<1>3. CASE Only(c, [l EXCEPT !.pc = "restore"])
  BY <1>1, <1>3, MovingStep
<1> QED
  BY <1>2, <1>3 DEF Swap

\* The back-up goes where a file does not hang on it.
LEMMA DiscardStep ==
    ASSUME IInv, NEW c \in Caller, Discard(c), UNCHANGED computeVars
    PROVE  IInv' /\ (Kept => Kept')
<1> DEFINE l == call[c]
           t == [l EXCEPT !.backup = None]
           r == Done(t, l.result)
<1>1. /\ l.pc = "discard" /\ l.pc \in Moving /\ strays' \in {strays, strays \cup {l.backup}}
      /\ Go(c, r) /\ UNCHANGED <<remote, dest>>
  BY DEF Discard, Moving
<1>2. l \in Calling /\ l.result \in Data /\ l.backup \in Data /\ Downloads(l, versions)
  BY <1>1, HeldByMove
<1>3. /\ t \in Calling /\ t.args = l.args /\ t.pinned = l.pinned
  BY <1>2 DEF Calling
<1> HIDE DEF t
<1>4. /\ r \in Calling /\ r.pc = "done" /\ r.args = l.args /\ r.pinned = l.pinned
      /\ r.result = l.result
  BY <1>2, <1>3, DoneIs
<1> HIDE DEF r
<1>5. Downloads(r, versions)
  BY <1>1, <1>2, <1>4 DEF Downloads, Moving
<1>6. Kept => Kept'
  BY <1>1, <1>4, GoIs DEF Kept, IInv
<1>7. dest' \in Data \cup {None} /\ strays' \subseteq Data
  BY <1>1, <1>2 DEF IInv, TypeOK
<1> QED
  BY <1>1, <1>4, <1>5, <1>6, <1>7, FileStep

\* The old file comes back, or is left where it can be found.
LEMMA RestoreStep ==
    ASSUME IInv, NEW c \in Caller, Restore(c), UNCHANGED computeVars
    PROVE  IInv' /\ (Kept => Kept')
<1> DEFINE l == call[c]
           t == [l EXCEPT !.backup = None]
           r == Again(t, "fetch")
<1>1. /\ l.pc = "restore" /\ l.pc \in Moving /\ Go(c, r) /\ UNCHANGED remote
      /\ \/ dest' = l.backup /\ UNCHANGED strays
         \/ strays' = strays \cup {l.backup} /\ UNCHANGED dest
  BY DEF Restore, Moving
<1>2. l \in Calling /\ l.backup \in Data /\ Downloads(l, versions) /\ l.backup # None
  BY <1>1, HeldByMove, StorageAssumption
<1>3. /\ t \in Calling /\ t.args = l.args /\ t.pinned = l.pinned /\ t.crc = l.crc
  BY <1>2 DEF Calling
<1> HIDE DEF t
<1>4. /\ r \in Calling /\ r.pc \in {"fetch", "failed"} /\ r.args = l.args /\ r.pinned = l.pinned
      /\ r.crc = l.crc
  <2>1. "fetch" \in TransferPc \cup ControlPc
    BY DEF TransferPc
  <2> QED
    BY <1>3, <2>1, AgainIs
<1> HIDE DEF r
<1>5. Downloads(r, versions)
  BY <1>1, <1>2, <1>4 DEF Downloads, Moving
<1>6. Kept'
  BY <1>1, <1>2 DEF Kept
<1>7. dest' \in Data \cup {None} /\ strays' \subseteq Data
  BY <1>1, <1>2 DEF IInv, TypeOK
<1> QED
  BY <1>1, <1>4, <1>5, <1>6, <1>7, FileStep
-----------------------------------------------------------------------------
(* The steps of calls that control machines.                               *)

\* A look-up that goes on sees less all the time, and more at some time.
Narrows(s, t) == t.listed \subseteq s.listed /\ s.once \subseteq t.once

LEMMA NarrowsIs ==
    ASSUME NEW s, NEW t, Narrows(s, t)
    PROVE  /\ NoneListed(s) => NoneListed(t)
           /\ \A m : OnlyListed(s, m) => OnlyListed(t, m)
           /\ \A scan : Covers(scan, s) => Covers(scan, t)
<1>1. NoneListed(s) => NoneListed(t)
  BY DEF Narrows, NoneListed
<1>2. \A m : OnlyListed(s, m) => OnlyListed(t, m)
  BY DEF Narrows, OnlyListed
<1>3. \A scan : Covers(scan, s) => Covers(scan, t)
  BY DEF Narrows, Covers
<1> QED
  BY <1>1, <1>2, <1>3

\* The histories follow what can be read now.
LEMMA RecordedIs ==
    ASSUME TypeOK, Recorded, machines' \in Seq(Made)
    PROVE  /\ seen' \in [Caller -> Sights] /\ reached' \subseteq Caller
           /\ reached \subseteq reached'
           /\ \A d \in Caller : /\ (Looking(d)' => Looking(d)) => Narrows(seen[d], seen'[d])
                                /\ Looking(d)' => /\ seen'[d].listed \subseteq Named'
                                                  /\ Named' \subseteq seen'[d].once
                                /\ AtTarget(d)' => d \in reached'
<1>1. Named' \in SUBSET Nat
  BY DEF Named, Live
<1>2. /\ seen' = [d \in Caller |-> Sight(d)]
      /\ reached' = reached \cup {d \in Caller : AtTarget(d)'}
  BY DEF Recorded
<1>3. seen \in [Caller -> Sights] /\ reached \subseteq Caller
  BY DEF TypeOK
<1>4. ASSUME NEW d \in Caller
      PROVE  /\ seen'[d] \in Sights
             /\ (Looking(d)' => Looking(d)) => Narrows(seen[d], seen'[d])
             /\ Looking(d)' => seen'[d].listed \subseteq Named' /\ Named' \subseteq seen'[d].once
  <2>1. seen[d] \in Sights /\ seen'[d] = Sight(d)
    BY <1>2, <1>3
  <2>2. CASE ~Looking(d)'
    BY <2>1, <2>2 DEF Sight, Narrows
  <2>3. CASE Looking(d)' /\ Looking(d)
    <3>1. seen'[d] = [listed |-> seen[d].listed \cap Named', once |-> seen[d].once \cup Named']
      BY <2>1, <2>3 DEF Sight
    <3> QED
      <4>1. seen'[d] \in Sights
        <5> DEFINE listed == seen[d].listed \cap Named'
                   once == seen[d].once \cup Named'
        <5>1. listed \in SUBSET Nat /\ once \in SUBSET Nat
          BY <1>1, <2>1 DEF Sights
        <5>2. seen'[d] = [listed |-> listed, once |-> once]
          BY <3>1
        <5> HIDE DEF listed, once
        <5> QED
          BY <5>1, <5>2 DEF Sights
      <4>2. Narrows(seen[d], seen'[d])
        BY <3>1 DEF Narrows
      <4>3. seen'[d].listed \subseteq Named' /\ Named' \subseteq seen'[d].once
        BY <3>1
      <4> QED
        BY <4>1, <4>2, <4>3
  <2>4. CASE Looking(d)' /\ ~Looking(d)
    <3>1. seen'[d] = [listed |-> Named', once |-> Named']
      BY <2>1, <2>4 DEF Sight
    <3> QED
      BY <1>1, <2>4, <3>1 DEF Sights
  <2> QED
    BY <2>2, <2>3, <2>4
<1>5. seen' \in [Caller -> Sights]
  BY <1>2, <1>4
<1> QED
  BY <1>2, <1>3, <1>4, <1>5

\* A step of a call that controls machines leaves what holds of transfers.
LEMMA ControlKeepsTransfers ==
    ASSUME IInv, NEW c \in Caller, NEW r \in Calling, Go(c, r), UNCHANGED storageVars,
           r.pc \in ControlPc \cup Ended, r.backup = call[c].backup,
           r.pc = "done" => r.args.op \in Control
    PROVE  TransfersHold' /\ VersionsAreChecked' /\ FileIsKept' /\ (Kept => Kept')
<1>1. /\ call' \in [Caller -> Calling] /\ call'[c] = r /\ service' = service
      /\ \A d \in Caller : d # c => call'[d] = call[d]
      /\ versions' = versions /\ UNCHANGED files /\ TypeOK
  BY GoIs DEF IInv, storageVars, remote
<1>2. r.pc \notin TransferPc /\ r.pc # "discard"
  BY Apart DEF TransferPc, Moving
<1>3. Downloads(r, versions) /\ Uploads(r, versions, service)
  BY <1>2 DEF Downloads, Uploads, Control, TransferPc, Moving
<1>4. TransfersHold'
  BY <1>1, <1>3 DEF IInv, TransfersHold
<1>5. VersionsAreChecked'
  BY <1>1 DEF IInv, VersionsAreChecked
<1>6. Kept => Kept'
  BY <1>1, <1>2, QuietIsKept
<1>7. FileIsKept'
  BY <1>1, <1>2, <1>6 DEF IInv, FileIsKept
<1> QED
  BY <1>4, <1>5, <1>6, <1>7

\* What the record of a call that controls machines must say.
Fits(c, r, many, sight) ==
    /\ r.args \in Calls[c] /\ r.args.op \in Control /\ r.backup = call[c].backup
    /\ r.pc \in ControlPc \cup Ended
    /\ r.pc = "create" => r.args.op = "create"
    /\ r.pc = "lookup" => service = "aws" /\ r.scan.found \subseteq many
    /\ r.pc = "power" => service # "aws"
    /\ r.pc \in {"act", "wait"} /\ service = "aws" => r.pinned \in many
    /\ service = "aws" /\ r.pc = "create" => NoneListed(sight)
    /\ service = "aws" /\ r.pc = "act" /\ r.args.id = None => OnlyListed(sight, r.pinned)
    /\ r.pc = "lookup" => IF Looking(c) THEN Covers(r.scan, sight)
                          ELSE r.scan.found = {} /\ r.scan.left = many

\* A step of such a call: what it must keep of the machines.
LEMMA ControlStep ==
    ASSUME IInv, NEW c \in Caller, NEW r \in Calling, Go(c, r), UNCHANGED storageVars, Recorded,
           Fits(c, r, DOMAIN machines', seen[c]),
           service # "aws" /\ r.pc = "wait" /\ outcome'[c] = "done" => c \in reached,
           r.pc = "done" => c \in reached,
           machines' \in Seq(Made), DOMAIN machines \subseteq DOMAIN machines',
           outcome' \in [Caller -> {"none", "running", "done", "failed"}],
           \A d \in Caller : d # c /\ outcome'[d] = "done" => outcome[d] = "done",
           MachinesBelong', OneOfAName', OneMachinePerCreate', NamesFailClosed'
    PROVE  IInv' /\ (Kept => Kept')
<1>1. /\ call' \in [Caller -> Calling] /\ call'[c] = r /\ service' = service
      /\ \A d \in Caller : d # c => call'[d] = call[d]
      /\ TypeOK
  BY GoIs DEF IInv
<1>2. /\ seen' \in [Caller -> Sights] /\ reached' \subseteq Caller
      /\ reached \subseteq reached'
      /\ \A d \in Caller : /\ (Looking(d)' => Looking(d)) => Narrows(seen[d], seen'[d])
                           /\ Looking(d)' => /\ seen'[d].listed \subseteq Named'
                                             /\ Named' \subseteq seen'[d].once
                           /\ AtTarget(d)' => d \in reached'
  BY <1>1, RecordedIs
<1>3. TypeOK'
  BY <1>1, <1>2 DEF TypeOK, storageVars, remote, files
<1>4. TransfersHold' /\ VersionsAreChecked' /\ FileIsKept' /\ (Kept => Kept')
  BY ControlKeepsTransfers DEF Fits
<1>5. CallsArePlaced'
  <2> SUFFICES ASSUME NEW d \in Caller PROVE Placed(d)'
    BY DEF CallsArePlaced
  <2>1. CASE d = c
    BY <1>1, <2>1, Apart DEF Placed, Fits
  <2>2. CASE d # c
    BY <1>1, <2>2 DEF IInv, CallsArePlaced, Placed
  <2> QED
    BY <2>1, <2>2
<1>6. SeenHolds'
  <2> SUFFICES ASSUME NEW d \in Caller PROVE SeenIsRead(d)'
    BY DEF SeenHolds
  <2>1. CASE d = c
    <3>1. CASE ~Looking(c)'
      <4>1. Narrows(seen[c], seen'[c])
        BY <1>2, <3>1
      <4> QED
        BY <1>1, <2>1, <3>1, <4>1, NarrowsIs DEF SeenIsRead, Fits
    <3>2. CASE Looking(c)' /\ Looking(c)
      <4>1. r.pc = "lookup" /\ Covers(r.scan, seen[c]) /\ Narrows(seen[c], seen'[c])
        BY <1>1, <1>2, <3>2 DEF Looking, Fits
      <4> QED
        BY <1>1, <1>2, <2>1, <3>2, <4>1, NarrowsIs DEF SeenIsRead
    <3>3. CASE Looking(c)' /\ ~Looking(c)
      <4>1. r.pc = "lookup" /\ r.scan.found = {} /\ r.scan.left = DOMAIN machines'
        BY <1>1, <3>3 DEF Looking, Fits
      <4>2. Named' \subseteq DOMAIN machines'
        BY DEF Named, Live
      <4>3. Covers(r.scan, seen'[c])
        BY <1>2, <3>3, <4>1, <4>2 DEF Covers
      <4> QED
        BY <1>1, <1>2, <2>1, <3>3, <4>1, <4>3 DEF SeenIsRead
    <3> QED
      BY <3>1, <3>2, <3>3
  <2>2. CASE d # c
    <3>1. Looking(d)' = Looking(d) /\ SeenIsRead(d)
      BY <1>1, <2>2 DEF IInv, SeenHolds, Looking
    <3>2. Narrows(seen[d], seen'[d])
      BY <1>2, <3>1
    <3> QED
      BY <1>1, <1>2, <2>2, <3>1, <3>2, NarrowsIs DEF SeenIsRead
  <2> QED
    BY <2>1, <2>2
<1>7. ReachedHolds'
  <2> SUFFICES ASSUME NEW d \in Caller PROVE ReachedIsRead(d)'
    BY DEF ReachedHolds
  <2>1. CASE d = c
    BY <1>1, <1>2, <2>1 DEF ReachedIsRead
  <2>2. CASE d # c
    BY <1>1, <1>2, <2>2 DEF IInv, ReachedHolds, ReachedIsRead
  <2> QED
    BY <2>1, <2>2
<1> QED
  BY <1>3, <1>4, <1>5, <1>6, <1>7 DEF IInv

\* A step that leaves the machines and their operations.
LEMMA HoldsStep ==
    ASSUME IInv, NEW c \in Caller, NEW r \in Calling, Holds(c, r), UNCHANGED storageVars, Recorded,
           call[c].pc = "idle" \/ ( r.args = call[c].args
                                    /\ (r.pc = "lookup" => call[c].pc = "lookup") ),
           Fits(c, r, DOMAIN machines, seen[c]),
           service # "aws" /\ r.pc = "create" => call[c].pc \in {"idle", "create"},
           service # "aws" /\ r.pc = "wait" /\ outcome[c] = "done" => c \in reached,
           r.pc = "done" => c \in reached
    PROVE  IInv' /\ (Kept => Kept')
<1>1. /\ Go(c, r) /\ machines' = machines /\ outcome' = outcome /\ TypeOK
      /\ call' \in [Caller -> Calling] /\ call'[c] = r /\ service' = service
      /\ \A d \in Caller : d # c => call'[d] = call[d]
  BY GoIs DEF Holds, IInv
<1>2. \A d \in Caller : call[d].pc = "idle" \/ Narrows(seen[d], seen'[d])
  <2> SUFFICES ASSUME NEW d \in Caller, call[d].pc # "idle" PROVE Looking(d)' => Looking(d)
    BY <1>1, RecordedIs DEF TypeOK
  <2> QED
    BY <1>1 DEF Looking
<1>3. r.pc # "idle" /\ r.args.op \notin Transfer /\ r.args.op \in Control
  BY Apart DEF Fits
<1>4. MachinesBelong'
  <2> SUFFICES ASSUME NEW d \in Caller, NEW m \in DOMAIN machines PROVE Belongs(d, m)'
    BY <1>1 DEF MachinesBelong
  <2>1. Belongs(d, m)
    BY DEF IInv, MachinesBelong
  <2>2. CASE d = c /\ call[c].pc = "idle"
    BY <1>1, <1>3, <2>1, <2>2 DEF Belongs
  <2>3. CASE d = c /\ call[c].pc # "idle"
    BY <1>1, <1>3, <2>1, <2>3 DEF Belongs
  <2>4. CASE d # c
    BY <1>1, <2>1, <2>4 DEF Belongs
  <2> QED
    BY <2>2, <2>3, <2>4
<1>5. OneOfAName' /\ OneMachinePerCreate'
  BY <1>1 DEF IInv, OneOfAName, OneMachinePerCreate, Live
<1>6. NamesFailClosed'
  <2> SUFFICES ASSUME service = "aws", NEW d \in Caller, NEW m \in DOMAIN machines
               PROVE  /\ machines[m].by = d => NoneListed(seen'[d])
                      /\ machines[m].op = d /\ call'[d].args.id = None
                         /\ call'[d].args.op # "create" => OnlyListed(seen'[d], m)
    BY <1>1 DEF NamesFailClosed
  <2>1. /\ machines[m].by = d => NoneListed(seen[d])
        /\ machines[m].op = d /\ call[d].args.id = None /\ call[d].args.op # "create" =>
               OnlyListed(seen[d], m)
    BY DEF IInv, NamesFailClosed
  <2>2. CASE call[d].pc # "idle" /\ call'[d].args = call[d].args
    BY <1>2, <2>1, <2>2, NarrowsIs
  <2>3. CASE call[d].pc = "idle"
    BY <2>3 DEF IInv, MachinesBelong, Belongs
  <2> QED
    BY <1>1, <2>2, <2>3
<1>7. /\ machines' \in Seq(Made) /\ outcome' \in [Caller -> {"none", "running", "done", "failed"}]
      /\ DOMAIN machines \subseteq DOMAIN machines'
      /\ \A d \in Caller : d # c /\ outcome'[d] = "done" => outcome[d] = "done"
      /\ service # "aws" /\ r.pc = "wait" /\ outcome'[c] = "done" => c \in reached
  BY <1>1 DEF TypeOK
<1> QED
  BY <1>1, <1>4, <1>5, <1>6, <1>7, ControlStep

\* A process that dies leaves everything but its place.
LEMMA CrashStep ==
    ASSUME IInv, NEW c \in Caller, Crash(c), UNCHANGED <<storageVars, machines, outcome>>,
           UNCHANGED history \/ Recorded
    PROVE  IInv' /\ (Kept => Kept')
<1> DEFINE l == call[c]
           r == [l EXCEPT !.pc = "crashed"]
<1>1. /\ Go(c, r) /\ l.pc \notin Ended \cup {"idle"} /\ l \in Calling /\ TypeOK
      /\ machines' = machines /\ outcome' = outcome
  BY DEF Crash, IInv, TypeOK
<1>2. r \in Calling /\ r.pc = "crashed" /\ r.args = l.args /\ r.backup = l.backup
  BY <1>1 DEF Calling, Ended
<1> HIDE DEF r
<1>3. /\ call' \in [Caller -> Calling] /\ call'[c] = r /\ service' = service
      /\ \A d \in Caller : d # c => call'[d] = call[d]
  BY <1>1, <1>2, GoIs
<1>4. /\ seen' \in [Caller -> Sights] /\ reached' \subseteq Caller
      /\ reached \subseteq reached'
      /\ \A d \in Caller : /\ Narrows(seen[d], seen'[d])
                           /\ Looking(d)' => /\ seen'[d].listed \subseteq Named'
                                             /\ Named' \subseteq seen'[d].once
  <2>1. \A d \in Caller : Looking(d)' => Looking(d)
    BY <1>2, <1>3 DEF Looking
  <2>2. CASE UNCHANGED history
    <3>1. Named' = Named
      BY <1>1 DEF Named, Live
    <3> QED
      BY <1>1, <2>1, <2>2, <3>1 DEF history, TypeOK, Narrows, IInv, SeenHolds, SeenIsRead
  <2>3. CASE Recorded
    BY <1>1, <2>1, <2>3, RecordedIs DEF TypeOK
  <2> QED
    BY <2>2, <2>3
<1>5. TypeOK'
  BY <1>1, <1>3, <1>4 DEF TypeOK, storageVars, remote, files
<1>6. TransfersHold' /\ VersionsAreChecked' /\ FileIsKept' /\ (Kept => Kept')
  BY <1>1, <1>2, ControlKeepsTransfers DEF Ended
<1>7. CallsArePlaced'
  <2> SUFFICES ASSUME NEW d \in Caller PROVE Placed(d)'
    BY DEF CallsArePlaced
  <2>1. Placed(d)
    BY DEF IInv, CallsArePlaced
  <2>2. CASE d = c
    BY <1>1, <1>2, <1>3, <2>1, <2>2 DEF Placed, TransferPc, Moving, ControlPc
  <2>3. CASE d # c
    BY <1>1, <1>3, <2>1, <2>3 DEF Placed
  <2> QED
    BY <2>2, <2>3
<1>8. SeenHolds'
  <2> SUFFICES ASSUME NEW d \in Caller PROVE SeenIsRead(d)'
    BY DEF SeenHolds
  <2>1. SeenIsRead(d)
    BY DEF IInv, SeenHolds
  <2>2. CASE d = c
    BY <1>2, <1>3, <2>2 DEF SeenIsRead, Looking
  <2>3. CASE d # c
    <3>1. Looking(d)' = Looking(d)
      BY <1>3, <2>3 DEF Looking
    <3> QED
      BY <1>3, <1>4, <2>1, <2>3, <3>1, NarrowsIs DEF SeenIsRead
  <2> QED
    BY <2>2, <2>3
<1>9. ReachedHolds'
  <2> SUFFICES ASSUME NEW d \in Caller PROVE ReachedIsRead(d)'
    BY DEF ReachedHolds
  <2>1. ReachedIsRead(d)
    BY DEF IInv, ReachedHolds
  <2>2. CASE d = c
    BY <1>2, <1>3, <2>2 DEF ReachedIsRead, AtTarget
  <2>3. CASE d # c
    BY <1>1, <1>3, <1>4, <2>1, <2>3 DEF ReachedIsRead, AtTarget, Power, Live
  <2> QED
    BY <2>2, <2>3
<1>10. MachinesBelong'
  <2> SUFFICES ASSUME NEW d \in Caller, NEW m \in DOMAIN machines PROVE Belongs(d, m)'
    BY <1>1 DEF MachinesBelong
  <2>1. Belongs(d, m)
    BY DEF IInv, MachinesBelong
  <2>2. CASE d = c
    BY <1>1, <1>2, <1>3, <2>1, <2>2 DEF Belongs
  <2>3. CASE d # c
    BY <1>1, <1>3, <2>1, <2>3 DEF Belongs
  <2> QED
    BY <2>2, <2>3
<1>11. OneOfAName' /\ OneMachinePerCreate'
  BY <1>1, <1>3 DEF IInv, OneOfAName, OneMachinePerCreate, Live
<1>12. NamesFailClosed'
  <2>1. \A d \in Caller : call'[d].args = call[d].args
    BY <1>2, <1>3
  <2> QED
    BY <1>1, <1>3, <1>4, <2>1, NarrowsIs DEF IInv, NamesFailClosed
<1> QED
  BY <1>5, <1>6, <1>7, <1>8, <1>9, <1>10, <1>11, <1>12 DEF IInv

\* The arguments of a call that controls machines.
LEMMA ArgsOfControl ==
    ASSUME IInv, NEW c \in Caller, call[c].pc \in ControlPc
    PROVE  /\ call[c].args \in Calls[c] /\ call[c].args.op \in Control
           /\ call[c].args.op = "create" => call[c].args.id = None
           /\ call[c] \in Calling /\ Placed(c)
<1>1. /\ call[c].args \in Calls[c] /\ call[c].args.op \in Control /\ Placed(c)
      /\ call[c] \in Calling
  BY Apart DEF IInv, TypeOK, CallsArePlaced, Placed
<1> QED
  BY <1>1, RawComputeAssumption

LEMMA BeginControlStep ==
    ASSUME IInv, NEW c \in Caller, BeginControl(c), UNCHANGED storageVars, Recorded
    PROVE  IInv' /\ (Kept => Kept')
<1>1. PICK a \in Calls[c] :
          /\ a.op \in Control
          /\ Holds(c, [Idle EXCEPT !.args = a, !.scan.left = DOMAIN machines,
                          !.pc = IF service = "aws" THEN "lookup"
                                 ELSE IF a.op = "create" THEN "create" ELSE "act"])
  BY DEF BeginControl
<1> DEFINE place == IF service = "aws" THEN "lookup"
                    ELSE IF a.op = "create" THEN "create" ELSE "act"
           r == [Idle EXCEPT !.args = a, !.scan.left = DOMAIN machines, !.pc = place]
<1>2. call[c] = Idle /\ call[c].pc = "idle"
  BY DEF BeginControl, IInv, CallsArePlaced, Placed
<1>3. /\ place \in {"lookup", "create", "act"}
      /\ service = "aws" => place = "lookup"
      /\ service # "aws" => place # "lookup" /\ (place = "create" => a.op = "create")
  OBVIOUS
<1>4. Holds(c, r)
  BY <1>1
<1> HIDE DEF place
<1>5. /\ r \in Calling /\ r.args = a /\ r.pc = place /\ r.backup = Idle.backup
      /\ r.scan.found = {} /\ r.scan.left = DOMAIN machines
  <2>1. DOMAIN machines \in SUBSET Nat
    BY DEF IInv, TypeOK
  <2> QED
    BY <1>1, <1>3, <2>1 DEF Idle, Unread, Calling, ControlPc
<1> HIDE DEF r
<1>6. Fits(c, r, DOMAIN machines, seen[c])
  BY <1>1, <1>2, <1>3, <1>5 DEF Fits, ControlPc, Looking
<1> QED
  BY <1>2, <1>3, <1>4, <1>5, <1>6, HoldsStep

\* A call that controls machines fails, and can fail at any time.
LEMMA ControlFails ==
    ASSUME IInv, NEW c \in Caller, NEW r \in Calling, Holds(c, r), UNCHANGED storageVars, Recorded,
           call[c].pc \in ControlPc, r.pc \in {"failed", "refused"},
           r.args = call[c].args, r.backup = call[c].backup
    PROVE  IInv' /\ (Kept => Kept')
<1>1. Fits(c, r, DOMAIN machines, seen[c])
  BY ArgsOfControl DEF Fits, Ended
<1> QED
  BY <1>1, HoldsStep

\* A name or a number is resolved: a name to nothing that was listed all the
\* time but what is found.
LEMMA ResolvedStep ==
    ASSUME IInv, NEW c \in Caller, NEW found \in SUBSET DOMAIN machines, call[c].pc = "lookup",
           Resolved(c, call[c], found), UNCHANGED storageVars, Recorded,
           call[c].args.id = None =>
               seen[c].listed \subseteq found /\ found \subseteq seen[c].once
    PROVE  IInv' /\ (Kept => Kept')
<1> DEFINE l == call[c]
<1>1. /\ l.args \in Calls[c] /\ l.args.op \in Control
      /\ l.args.op = "create" => l.args.id = None
      /\ l \in Calling /\ service = "aws" /\ Unread \in [found : SUBSET Nat, left : SUBSET Nat]
  BY ArgsOfControl DEF Placed, ControlPc, Unread
<1>2. CASE l.args.op = "create" /\ found = {} /\ Holds(c, [l EXCEPT !.pc = "create", !.scan = Unread])
  <2> DEFINE r == [l EXCEPT !.pc = "create", !.scan = Unread]
  <2>1. r \in Calling /\ r.pc = "create" /\ r.args = l.args /\ r.backup = l.backup
    BY <1>1 DEF Calling, ControlPc
  <2> HIDE DEF r
  <2>2. NoneListed(seen[c])
    BY <1>1, <1>2 DEF NoneListed
  <2>3. Fits(c, r, DOMAIN machines, seen[c])
    BY <1>1, <1>2, <2>1, <2>2 DEF Fits, ControlPc
  <2> QED
    BY <1>1, <1>2, <2>1, <2>3, HoldsStep DEF r
<1>3. ASSUME NEW m \in found, l.args.op # "create", Unambiguous(found, m),
             Holds(c, [l EXCEPT !.pc = "act", !.pinned = m, !.scan = Unread])
      PROVE  IInv' /\ (Kept => Kept')
  <2> DEFINE r == [l EXCEPT !.pc = "act", !.pinned = m, !.scan = Unread]
  <2>1. m \in DOMAIN machines /\ m \in Nat
    BY <1>3 DEF IInv, TypeOK
  <2>2. r \in Calling /\ r.pc = "act" /\ r.args = l.args /\ r.backup = l.backup /\ r.pinned = m
    BY <1>1, <2>1 DEF Calling, ControlPc
  <2> HIDE DEF r
  <2>3. l.args.id = None => OnlyListed(seen[c], m)
    BY <1>3 DEF OnlyListed, Unambiguous
  <2>4. Fits(c, r, DOMAIN machines, seen[c])
    BY <1>1, <1>3, <2>1, <2>2, <2>3 DEF Fits, ControlPc
  <2> QED
    BY <1>1, <1>3, <2>2, <2>4, HoldsStep DEF r
<1> QED
  BY <1>2, <1>3 DEF Resolved

\* A page of the machines of a name: what is listed on it has been listed at a
\* moment of the look-up, and what it does not list is not listed all the time.
LEMMA LookupPageStep ==
    ASSUME IInv, NEW c \in Caller, LookupPage(c), UNCHANGED storageVars, Recorded
    PROVE  IInv' /\ (Kept => Kept')
<1> DEFINE l == call[c]
<1>1. /\ l.pc = "lookup" /\ l.args.id = None /\ l.pc \in ControlPc
      /\ l.args \in Calls[c] /\ l.args.op \in Control /\ l \in Calling /\ service = "aws"
  BY ArgsOfControl DEF LookupPage, ControlPc, Placed
<1>2. /\ Looking(c) /\ Covers(l.scan, seen[c])
      /\ seen[c].listed \subseteq Named /\ Named \subseteq seen[c].once
      /\ l.scan \in [found : SUBSET Nat, left : SUBSET Nat] /\ l.scan.found \subseteq DOMAIN machines
  BY <1>1 DEF Looking, IInv, SeenHolds, SeenIsRead, Calling, CallsArePlaced, Placed
<1>3. PICK part \in SUBSET l.scan.left :
          \/ Holds(c, [l EXCEPT !.scan.found = l.scan.found \cup (part \cap Named),
                               !.scan.left = @ \ part])
          \/ part = l.scan.left /\ Resolved(c, l, l.scan.found \cup (part \cap Named))
  BY DEF LookupPage
<1> DEFINE found == l.scan.found \cup (part \cap Named)
<1>4. /\ seen[c].listed \subseteq found \cup (l.scan.left \ part)
      /\ found \subseteq seen[c].once /\ found \in SUBSET Nat /\ found \subseteq DOMAIN machines
  BY <1>2 DEF Covers, Named, Live
<1> HIDE DEF found
<1>5. CASE Holds(c, [l EXCEPT !.scan.found = found, !.scan.left = @ \ part])
  <2> DEFINE r == [l EXCEPT !.scan.found = found, !.scan.left = @ \ part]
  <2>1. /\ r \in Calling /\ r.pc = "lookup" /\ r.args = l.args /\ r.backup = l.backup
        /\ r.scan.found = found /\ r.scan.left = l.scan.left \ part
    BY <1>1, <1>2, <1>4 DEF Calling, ControlPc
  <2> HIDE DEF r
  <2>2. Covers(r.scan, seen[c])
    BY <1>4, <2>1 DEF Covers
  <2>3. Fits(c, r, DOMAIN machines, seen[c])
    BY <1>1, <1>2, <1>4, <2>1, <2>2 DEF Fits, ControlPc
  <2> QED
    BY <1>1, <1>5, <2>1, <2>3, HoldsStep DEF r
<1>6. CASE part = l.scan.left /\ Resolved(c, l, found)
  <2>1. seen[c].listed \subseteq found
    BY <1>4, <1>6
  <2> QED
    BY <1>1, <1>4, <1>6, <2>1, ResolvedStep
<1> QED
  BY <1>3, <1>5, <1>6 DEF found

LEMMA LookupIdStep ==
    ASSUME IInv, NEW c \in Caller, LookupId(c), UNCHANGED storageVars, Recorded
    PROVE  IInv' /\ (Kept => Kept')
BY ResolvedStep DEF LookupId

LEMMA LookupFailsStep ==
    ASSUME IInv, NEW c \in Caller, LookupFails(c), UNCHANGED storageVars, Recorded
    PROVE  IInv' /\ (Kept => Kept')
<1> DEFINE l == [call[c] EXCEPT !.scan = Unread]
<1>1. call[c].pc \in ControlPc /\ Holds(c, Failed(l)) /\ call[c] \in Calling
  BY DEF LookupFails, ControlPc, IInv, TypeOK
<1>2. l \in Calling /\ l.args = call[c].args /\ l.backup = call[c].backup
  BY <1>1 DEF Calling, Unread
<1> HIDE DEF l
<1> QED
  BY <1>1, <1>2, EndIs, ControlFails

\* A wait is over when the state has been there to read, or has failed.
LEMMA PollStep ==
    ASSUME IInv, NEW c \in Caller, Poll(c), UNCHANGED storageVars, Recorded
    PROVE  IInv' /\ (Kept => Kept')
<1> DEFINE l == call[c]
<1>1. l.pc = "wait" /\ l.pc \in ControlPc
  BY DEF Poll, ControlPc
<1>2. /\ l.args \in Calls[c] /\ l.args.op \in Control /\ l \in Calling /\ l.pinned \in Nat
      /\ AtTarget(c) => c \in reached
      /\ service # "aws" /\ outcome[c] = "done" => c \in reached
  BY <1>1, ArgsOfControl DEF Calling, IInv, ReachedHolds, ReachedIsRead
<1>3. CASE Holds(c, Done(l, l.pinned)) /\ c \in reached
  <2> DEFINE r == Done(l, l.pinned)
  <2>1. r \in Calling /\ r.pc = "done" /\ r.args = l.args /\ r.backup = l.backup
    BY <1>2, DoneIs
  <2> HIDE DEF r
  <2>2. Fits(c, r, DOMAIN machines, seen[c])
    BY <1>2, <2>1 DEF Fits, Ended
  <2> QED
    BY <1>3, <2>1, <2>2, HoldsStep DEF r
<1>4. CASE service # "aws" /\ Holds(c, [l EXCEPT !.pc = "power"])
  <2> DEFINE r == [l EXCEPT !.pc = "power"]
  <2>1. r \in Calling /\ r.pc = "power" /\ r.args = l.args /\ r.backup = l.backup
    BY <1>2 DEF Calling, ControlPc
  <2> HIDE DEF r
  <2>2. Fits(c, r, DOMAIN machines, seen[c])
    BY <1>2, <1>4, <2>1 DEF Fits, ControlPc
  <2> QED
    BY <1>4, <2>1, <2>2, HoldsStep DEF r
<1>5. CASE Holds(c, Failed(l))
  BY <1>1, <1>2, <1>5, EndIs, ControlFails
<1> QED
  BY <1>1, <1>2, <1>3, <1>4, <1>5 DEF Poll, OperationDone, AtTarget

LEMMA PollPowerStep ==
    ASSUME IInv, NEW c \in Caller, PollPower(c), UNCHANGED storageVars, Recorded
    PROVE  IInv' /\ (Kept => Kept')
<1> DEFINE l == call[c]
<1>1. l.pc = "power" /\ l.pc \in ControlPc
  BY DEF PollPower, ControlPc
<1>2. /\ l.args \in Calls[c] /\ l.args.op \in Control /\ l \in Calling /\ l.pinned \in Nat
      /\ service # "aws" /\ (AtTarget(c) => c \in reached)
  BY <1>1, ArgsOfControl DEF Calling, Placed, IInv, ReachedHolds, ReachedIsRead
<1>3. CASE Power(Target(l.args.op)) /\ Holds(c, Done(l, l.pinned))
  <2> DEFINE r == Done(l, l.pinned)
  <2>1. r \in Calling /\ r.pc = "done" /\ r.args = l.args /\ r.backup = l.backup
    BY <1>2, DoneIs
  <2> HIDE DEF r
  <2>2. Fits(c, r, DOMAIN machines, seen[c])
    BY <1>2, <2>1 DEF Fits, Ended
  <2>3. c \in reached
    BY <1>1, <1>2, <1>3 DEF AtTarget
  <2> QED
    BY <1>3, <2>1, <2>2, <2>3, HoldsStep DEF r
<1>4. CASE Holds(c, Failed(l))
  BY <1>1, <1>2, <1>4, EndIs, ControlFails
<1> QED
  BY <1>3, <1>4 DEF PollPower

LEMMA WaitFailsStep ==
    ASSUME IInv, NEW c \in Caller, WaitFails(c), UNCHANGED storageVars, Recorded
    PROVE  IInv' /\ (Kept => Kept')
<1>1. /\ call[c].pc \in ControlPc /\ call[c] \in Calling /\ Holds(c, Failed(call[c]))
  BY DEF WaitFails, ControlPc, IInv, TypeOK
<1> QED
  BY <1>1, EndIs, ControlFails

-----------------------------------------------------------------------------
(* Requests that change a machine.                                         *)

\* A request that is sent again, or has failed.
LEMMA ResentIs ==
    ASSUME NEW l \in Calling, NEW pc \in {"create", "act"}
    PROVE  /\ Resent(l, pc) \in Calling /\ Resent(l, pc).pc \in {pc, "failed"}
           /\ Resent(l, pc).args = l.args /\ Resent(l, pc).pinned = l.pinned
           /\ Resent(l, pc).backup = l.backup
           /\ service # "aws" => Resent(l, pc).pc = "failed"
<1>1. pc \in TransferPc \cup ControlPc
  BY DEF ControlPc
<1> QED
  BY <1>1, AgainIs, EndIs DEF Resent

\* The answer to a request, or none.
LEMMA AnswerIs ==
    ASSUME NEW l \in Calling, NEW m \in Nat, NEW pc \in {"create", "act"},
           NEW r \in Waiting(l, m) \cup {Resent(l, pc)}
    PROVE  /\ r \in Calling /\ r.pc \in {"wait", "power", pc, "failed"}
           /\ r.args = l.args /\ r.backup = l.backup
           /\ r.pc = "wait" => r.pinned = m
           /\ r.pc = "power" => service # "aws"
           /\ r.pc = pc => service = "aws" /\ r.pinned = l.pinned
<1>1. CASE r = Resent(l, pc)
  BY <1>1, ResentIs
<1>2. CASE r = [l EXCEPT !.pc = "wait", !.pinned = m]
  BY <1>2 DEF Calling, ControlPc
<1>3. CASE service = "azure" /\ r = [l EXCEPT !.pc = "power", !.pinned = m]
  BY <1>3 DEF Calling, ControlPc
<1> QED
  BY <1>1, <1>2, <1>3 DEF Waiting

\* A machine is made: the name was free, and the create had none.
LEMMA MakeStep ==
    ASSUME IInv, NEW c \in Caller, call[c].pc = "create", NEW r \in Calling, Go(c, r),
           UNCHANGED storageVars, Recorded,
           r \in Waiting(call[c], Len(machines) + 1) \cup {Resent(call[c], "create")},
           IF service = "aws"
           THEN {m \in DOMAIN machines : machines[m].token = Token(c, call[c])} = {} ELSE Live = {},
           machines' = Append(machines,
                           [Machine("pending", Token(c, call[c]), c) EXCEPT !.op = c]),
           outcome' = [outcome EXCEPT ![c] = "running"]
    PROVE  IInv' /\ (Kept => Kept')
<1> DEFINE l == call[c]
           new == Len(machines) + 1
           made == [Machine("pending", Token(c, l), c) EXCEPT !.op = c]
<1>1. /\ l \in Calling /\ l.args \in Calls[c] /\ l.args.op = "create" /\ l.args.op \in Control
      /\ service = "aws" => NoneListed(seen[c])
      /\ TypeOK /\ machines \in Seq(Made) /\ new \in Nat
  <2>1. l.pc \in ControlPc
    BY DEF ControlPc
  <2>2. TypeOK /\ machines \in Seq(Made) /\ (service = "aws" => NoneListed(seen[c]))
    BY DEF IInv, TypeOK, SeenHolds, SeenIsRead
  <2>3. new \in Nat
    BY <2>2
  <2> QED
    BY <2>1, <2>2, <2>3, ArgsOfControl DEF Placed
<1>2. /\ r.pc \in {"wait", "power", "create", "failed"} /\ r.args = l.args /\ r.backup = l.backup
      /\ r.pc = "wait" => r.pinned = new
      /\ r.pc = "power" => service # "aws"
      /\ r.pc = "create" => service = "aws"
  BY <1>1, AnswerIs
<1>3. /\ call' \in [Caller -> Calling] /\ call'[c] = r /\ service' = service
      /\ \A d \in Caller : d # c => call'[d] = call[d]
  BY <1>1, GoIs
<1>4. /\ made \in Made /\ made.state = "pending" /\ made.token = <<c, 0>>
      /\ made.by = c /\ made.op = c
  BY DEF Machine, Token, Made, State
<1>5. machines' = Append(machines, made)
  OBVIOUS
<1> HIDE DEF made
<1>6. /\ machines' \in Seq(Made) /\ DOMAIN machines' = DOMAIN machines \cup {new}
      /\ new \notin DOMAIN machines /\ machines'[new] = made
      /\ \A m \in DOMAIN machines : machines'[m] = machines[m]
  BY <1>1, <1>4, <1>5
<1>7. \A m \in DOMAIN machines : machines[m].by # c
  BY <1>1 DEF IInv, MachinesBelong, Belongs, Token
<1>8. MachinesBelong'
  <2> SUFFICES ASSUME NEW d \in Caller, NEW m \in DOMAIN machines' PROVE Belongs(d, m)'
    BY DEF MachinesBelong
  <2>1. l.args.op \notin Transfer /\ "pending" \in Doing(l.args.op) /\ r.pc # "idle"
    BY <1>1, <1>2, Apart DEF Doing
  <2>2. CASE m = new
    BY <1>1, <1>2, <1>3, <1>4, <1>6, <2>1, <2>2 DEF Belongs
  <2>3. CASE m # new
    <3>1. m \in DOMAIN machines /\ machines'[m] = machines[m]
      BY <1>6, <2>3
    <3>2. Belongs(d, m)
      BY <3>1 DEF IInv, MachinesBelong
    <3>3. CASE d = c
      BY <1>2, <1>3, <1>7, <2>1, <3>1, <3>2, <3>3 DEF Belongs
    <3>4. CASE d # c
      BY <1>3, <3>1, <3>2, <3>4 DEF Belongs
    <3> QED
      BY <3>3, <3>4
  <2> QED
    BY <2>2, <2>3
<1>9. OneOfAName'
  BY <1>3, <1>6 DEF OneOfAName, Live
<1>10. OneMachinePerCreate'
  <2> SUFFICES ASSUME NEW m \in DOMAIN machines', NEW n \in DOMAIN machines',
                      machines'[m].by = machines'[n].by, machines'[m].by # None
               PROVE  m = n
    BY DEF OneMachinePerCreate
  <2>1. CASE m = new \/ n = new
    BY <1>4, <1>6, <1>7, <2>1
  <2>2. CASE m # new /\ n # new
    <3>1. /\ m \in DOMAIN machines /\ machines'[m] = machines[m]
          /\ n \in DOMAIN machines /\ machines'[n] = machines[n]
      BY <1>6, <2>2
    <3> QED
      BY <3>1 DEF IInv, OneMachinePerCreate
  <2> QED
    BY <2>1, <2>2
<1>11. \A d \in Caller : Narrows(seen[d], seen'[d])
  <2>1. \A d \in Caller : Looking(d)' => Looking(d)
    BY <1>2, <1>3 DEF Looking
  <2> QED
    BY <1>1, <1>6, <2>1, RecordedIs
<1>12. NamesFailClosed'
  <2> SUFFICES ASSUME service = "aws", NEW d \in Caller, NEW m \in DOMAIN machines'
               PROVE  /\ machines'[m].by = d => NoneListed(seen'[d])
                      /\ machines'[m].op = d /\ call'[d].args.id = None
                         /\ call'[d].args.op # "create" => OnlyListed(seen'[d], m)
    BY <1>3 DEF NamesFailClosed
  <2>1. CASE m = new
    <3>1. NoneListed(seen'[c])
      BY <1>1, <1>11, NarrowsIs
    <3>2. call'[c].args.op = "create"
      BY <1>1, <1>2, <1>3
    <3> QED
      BY <1>4, <1>6, <2>1, <3>1, <3>2
  <2>2. CASE m # new
    <3>1. m \in DOMAIN machines /\ machines'[m] = machines[m] /\ call'[d].args = call[d].args
      BY <1>2, <1>3, <1>6, <2>2
    <3>2. /\ machines[m].by = d => NoneListed(seen[d])
          /\ machines[m].op = d /\ call[d].args.id = None /\ call[d].args.op # "create" =>
                 OnlyListed(seen[d], m)
      BY <3>1 DEF IInv, NamesFailClosed
    <3> QED
      BY <1>11, <3>1, <3>2, NarrowsIs
  <2> QED
    BY <2>1, <2>2
<1>13. Fits(c, r, DOMAIN machines', seen[c])
  BY <1>1, <1>2, <1>6 DEF Fits, ControlPc, Ended
<1>14. /\ outcome' \in [Caller -> {"none", "running", "done", "failed"}] /\ outcome'[c] = "running"
       /\ \A d \in Caller : d # c /\ outcome'[d] = "done" => outcome[d] = "done"
  BY <1>1 DEF TypeOK
<1> QED
  BY <1>2, <1>6, <1>8, <1>9, <1>10, <1>12, <1>13, <1>14, ControlStep

LEMMA CreateStep ==
    ASSUME IInv, NEW c \in Caller, Create(c), UNCHANGED storageVars, Recorded
    PROVE  IInv' /\ (Kept => Kept')
<1> DEFINE l == call[c]
           mine == {m \in DOMAIN machines : machines[m].token = Token(c, l)}
           new == Len(machines) + 1
<1>1. l.pc = "create" /\ l.pc \in ControlPc
  BY DEF Create, ControlPc
<1>2. /\ l \in Calling /\ l.args \in Calls[c] /\ l.args.op = "create" /\ l.args.op \in Control
      /\ service = "aws" => NoneListed(seen[c])
      /\ machines \in Seq(Made) /\ new \in Nat
  <2>1. machines \in Seq(Made) /\ (service = "aws" => NoneListed(seen[c]))
    BY <1>1 DEF IInv, TypeOK, SeenHolds, SeenIsRead
  <2>2. new \in Nat
    BY <2>1
  <2> QED
    BY <1>1, <2>1, <2>2, ArgsOfControl DEF Placed
<1>3. ASSUME IF service = "aws" THEN mine = {} ELSE Live = {},
             machines' = Append(machines, [Machine("pending", Token(c, l), c) EXCEPT !.op = c]),
             outcome' = [outcome EXCEPT ![c] = "running"],
             Answer(c, l, new, "create")
      PROVE  IInv' /\ (Kept => Kept')
  <2>1. PICK r \in Waiting(l, new) \cup {Resent(l, "create")} : Go(c, r)
    BY <1>3 DEF Answer
  <2>2. r \in Calling
    BY <1>2, <2>1, AnswerIs
  <2> QED
    BY <1>1, <1>3, <2>1, <2>2, MakeStep
<1>4. ASSUME service = "aws", NEW m \in mine, Answer(c, l, m, "create"),
             UNCHANGED <<machines, outcome>>
      PROVE  IInv' /\ (Kept => Kept')
  <2>1. PICK r \in Waiting(l, m) \cup {Resent(l, "create")} : Go(c, r)
    BY <1>4 DEF Answer
  <2>2. m \in DOMAIN machines /\ m \in Nat
    BY <1>2, <1>4
  <2>3. /\ r \in Calling /\ r.pc \in {"wait", "power", "create", "failed"}
        /\ r.args = l.args /\ r.backup = l.backup
        /\ r.pc = "wait" => r.pinned = m
        /\ r.pc = "power" => service # "aws"
    BY <1>2, <2>1, <2>2, AnswerIs
  <2>4. Fits(c, r, DOMAIN machines, seen[c])
    BY <1>2, <1>4, <2>2, <2>3 DEF Fits, ControlPc, Ended
  <2>5. Holds(c, r)
    BY <1>4, <2>1 DEF Holds
  <2> QED
    BY <1>4, <2>3, <2>4, <2>5, HoldsStep
<1>5. CASE Holds(c, Refused(l))
  BY <1>1, <1>2, <1>5, EndIs, ControlFails
<1>6. CASE Holds(c, Resent(l, "create"))
  <2> DEFINE r == Resent(l, "create")
  <2>1. /\ r \in Calling /\ r.pc \in {"create", "failed"} /\ r.args = l.args
        /\ r.backup = l.backup
    BY <1>2, ResentIs
  <2> HIDE DEF r
  <2>2. Fits(c, r, DOMAIN machines, seen[c])
    BY <1>2, <2>1 DEF Fits, ControlPc, Ended
  <2> QED
    BY <1>1, <1>6, <2>1, <2>2, HoldsStep DEF r
<1> QED
  BY <1>3, <1>4, <1>5, <1>6 DEF Create

\* One machine changes.
LEMMA OneChanges ==
    ASSUME TypeOK, NEW m \in DOMAIN machines, NEW made \in Made,
           machines' = [machines EXCEPT ![m] = made]
    PROVE  /\ machines' \in Seq(Made) /\ DOMAIN machines' = DOMAIN machines
           /\ machines'[m] = made
           /\ \A n \in DOMAIN machines : n # m => machines'[n] = machines[n]
<1>1. machines \in Seq(Made)
  BY DEF TypeOK
<1>2. m \in 1..Len(machines) /\ DOMAIN machines' = DOMAIN machines
  BY <1>1
<1>3. machines' \in Seq(Made)
  BY <1>1, <1>2, ExceptSeq
<1> QED
  BY <1>2, <1>3

\* A service takes an action only in a state it is for, and the machine stays.
LEMMA BecomesIs ==
    ASSUME NEW op \in Control, NEW state \in State, Becomes(op, state) # None
    PROVE  /\ Becomes(op, state) \in State /\ Becomes(op, state) \in Doing(op)
           /\ Becomes(op, state) # "gone" /\ state # "gone"
<1>1. CASE op = "create"
  BY <1>1 DEF Becomes
<1>2. CASE op = "start"
  BY <1>2 DEF Becomes, Doing, State
<1>3. CASE op = "stop"
  BY <1>3 DEF Becomes, Doing, State
<1>4. CASE op = "destroy"
  BY <1>4 DEF Becomes, Doing, State
<1> QED
  BY <1>1, <1>2, <1>3, <1>4 DEF Control

\* An action is taken: on the machine that was looked up.
LEMMA TakenStep ==
    ASSUME IInv, NEW c \in Caller, call[c].pc = "act", NEW r \in Calling, Go(c, r),
           UNCHANGED storageVars, Recorded, NEW m \in Subject(call[c]),
           r \in Waiting(call[c], m) \cup {Resent(call[c], "act")},
           NEW state, state = Becomes(call[c].args.op, machines[m].state), state # None,
           machines' = [machines EXCEPT ![m].state = state, ![m].op = c],
           outcome' = [d \in Caller |-> CASE d = c -> "running"
                                          [] d # c /\ d = machines[m].op -> "failed"
                                          [] OTHER -> outcome[d]]
    PROVE  IInv' /\ (Kept => Kept')
<1> DEFINE l == call[c]
<1>1. /\ l \in Calling /\ l.args \in Calls[c] /\ l.args.op \in Control
      /\ service = "aws" => l.pinned \in DOMAIN machines
      /\ service = "aws" /\ l.args.id = None => OnlyListed(seen[c], l.pinned)
  <2>1. l.pc \in ControlPc
    BY DEF ControlPc
  <2>2. service = "aws" /\ l.args.id = None => OnlyListed(seen[c], l.pinned)
    BY DEF IInv, SeenHolds, SeenIsRead
  <2> QED
    BY <2>1, <2>2, ArgsOfControl DEF Placed
<1>2. /\ m \in DOMAIN machines /\ m \in Nat /\ machines[m] \in Made /\ TypeOK
      /\ machines \in Seq(Made) /\ (service = "aws" => m = l.pinned)
  BY <1>1 DEF Subject, Live, IInv, TypeOK
<1>3. /\ r.pc \in {"wait", "power", "act", "failed"} /\ r.args = l.args /\ r.backup = l.backup
      /\ r.pc = "wait" => r.pinned = m
      /\ r.pc = "power" => service # "aws"
      /\ r.pc = "act" => service = "aws" /\ r.pinned = l.pinned
  BY <1>1, <1>2, AnswerIs
<1>4. /\ call' \in [Caller -> Calling] /\ call'[c] = r /\ service' = service
      /\ \A d \in Caller : d # c => call'[d] = call[d]
  BY <1>2, GoIs
<1>5. /\ state \in State /\ state \in Doing(l.args.op) /\ state # "gone"
      /\ machines[m].state # "gone"
  <2>1. machines[m].state \in State
    BY <1>2 DEF Made
  <2> QED
    BY <1>1, <2>1, BecomesIs
<1>6. /\ machines' \in Seq(Made) /\ DOMAIN machines' = DOMAIN machines
      /\ machines'[m].state = state /\ machines'[m].op = c
      /\ machines'[m].by = machines[m].by /\ machines'[m].token = machines[m].token
      /\ \A n \in DOMAIN machines : n # m => machines'[n] = machines[n]
  <2> DEFINE made == [machines[m] EXCEPT !.state = state, !.op = c]
  <2>1. /\ made \in Made /\ made.state = state /\ made.op = c
        /\ made.by = machines[m].by /\ made.token = machines[m].token
    BY <1>2, <1>5 DEF Made
  <2>2. machines' = [machines EXCEPT ![m] = made]
    BY <1>2 DEF Made
  <2> HIDE DEF made
  <2> QED
    BY <1>2, <2>1, <2>2, OneChanges
<1>7. \A n \in DOMAIN machines : machines'[n].by = machines[n].by
                                 /\ machines'[n].token = machines[n].token
  BY <1>6
<1>8. MachinesBelong'
  <2> SUFFICES ASSUME NEW d \in Caller, NEW n \in DOMAIN machines PROVE Belongs(d, n)'
    BY <1>6 DEF MachinesBelong
  <2>1. Belongs(d, n) /\ l.args.op \notin Transfer /\ r.pc # "idle" /\ r.pc # "create"
    BY <1>1, <1>3, Apart DEF IInv, MachinesBelong
  <2>2. CASE d = c /\ n = m
    BY <1>1, <1>3, <1>4, <1>5, <1>6, <2>1, <2>2 DEF Belongs
  <2>3. CASE d = c /\ n # m
    BY <1>1, <1>3, <1>4, <1>6, <2>1, <2>3 DEF Belongs
  <2>4. CASE d # c
    BY <1>4, <1>6, <2>1, <2>4 DEF Belongs
  <2> QED
    BY <2>2, <2>3, <2>4
<1>9. OneOfAName'
  <2>1. \A n \in DOMAIN machines : machines'[n].state # "gone" => machines[n].state # "gone"
    BY <1>5, <1>6
  <2>2. Live' \subseteq Live
    BY <1>6, <2>1 DEF Live
  <2> QED
    BY <1>4, <2>2 DEF IInv, OneOfAName
<1>10. OneMachinePerCreate'
  BY <1>6, <1>7 DEF IInv, OneMachinePerCreate
<1>11. \A d \in Caller : Narrows(seen[d], seen'[d])
  <2>1. \A d \in Caller : Looking(d)' => Looking(d)
    BY <1>3, <1>4 DEF Looking
  <2> QED
    BY <1>2, <1>6, <2>1, RecordedIs
<1>12. NamesFailClosed'
  <2> SUFFICES ASSUME service = "aws", NEW d \in Caller, NEW n \in DOMAIN machines
               PROVE  /\ machines'[n].by = d => NoneListed(seen'[d])
                      /\ machines'[n].op = d /\ call'[d].args.id = None
                         /\ call'[d].args.op # "create" => OnlyListed(seen'[d], n)
    BY <1>4, <1>6 DEF NamesFailClosed
  <2>1. /\ machines[n].by = d => NoneListed(seen[d])
        /\ machines[n].op = d /\ call[d].args.id = None /\ call[d].args.op # "create" =>
               OnlyListed(seen[d], n)
        /\ call'[d].args = call[d].args
    BY <1>3, <1>4 DEF IInv, NamesFailClosed
  <2>2. CASE n = m
    <3>1. machines'[n].by = d => NoneListed(seen'[d])
      BY <1>6, <1>11, <2>1, <2>2, NarrowsIs
    <3>2. ASSUME machines'[n].op = d, call'[d].args.id = None PROVE OnlyListed(seen'[d], n)
      <4>1. d = c /\ l.args.id = None
        BY <1>6, <2>1, <2>2, <3>2
      <4> QED
        BY <1>1, <1>2, <1>11, <2>2, <4>1, NarrowsIs
    <3> QED
      BY <3>1, <3>2
  <2>3. CASE n # m
    BY <1>6, <1>11, <2>1, <2>3, NarrowsIs
  <2> QED
    BY <2>2, <2>3
<1>13. Fits(c, r, DOMAIN machines', seen[c])
  BY <1>1, <1>2, <1>3, <1>6 DEF Fits, ControlPc, Ended
<1>14. /\ outcome' \in [Caller -> {"none", "running", "done", "failed"}] /\ outcome'[c] = "running"
       /\ \A d \in Caller : d # c /\ outcome'[d] = "done" => outcome[d] = "done"
  BY <1>2, Zenon DEF TypeOK
<1> QED
  BY <1>3, <1>6, <1>8, <1>9, <1>10, <1>12, <1>13, <1>14, ControlStep

LEMMA ActStep ==
    ASSUME IInv, NEW c \in Caller, Act(c), UNCHANGED storageVars, Recorded
    PROVE  IInv' /\ (Kept => Kept')
<1> DEFINE l == call[c]
<1>1. l.pc = "act" /\ l.pc \in ControlPc
  BY DEF Act, ControlPc
<1>2. /\ l \in Calling /\ l.args \in Calls[c] /\ l.args.op \in Control
      /\ service = "aws" => l.pinned \in DOMAIN machines
      /\ service = "aws" /\ l.args.id = None => OnlyListed(seen[c], l.pinned)
  <2>1. service = "aws" /\ l.args.id = None => OnlyListed(seen[c], l.pinned)
    BY <1>1 DEF IInv, SeenHolds, SeenIsRead
  <2> QED
    BY <1>1, <2>1, ArgsOfControl DEF Placed
<1>3. ASSUME NEW m \in Subject(l), Becomes(l.args.op, machines[m].state) # None,
             machines' = [machines EXCEPT ![m].state = Becomes(l.args.op, machines[m].state),
                                          ![m].op = c],
             outcome' = [d \in Caller |-> CASE d = c -> "running"
                                            [] d # c /\ d = machines[m].op -> "failed"
                                            [] OTHER -> outcome[d]],
             Answer(c, l, m, "act")
      PROVE  IInv' /\ (Kept => Kept')
  <2>1. PICK r \in Waiting(l, m) \cup {Resent(l, "act")} : Go(c, r)
    BY <1>3 DEF Answer
  <2>2. m \in Nat
    BY <1>2, <1>3 DEF Subject, Live, IInv, TypeOK
  <2>3. r \in Calling
    BY <1>2, <2>1, <2>2, AnswerIs
  <2> QED
    BY <1>1, <1>3, <2>1, <2>3, TakenStep
<1>4. CASE Holds(c, Failed(l))
  BY <1>1, <1>2, <1>4, EndIs, ControlFails
<1>5. CASE Holds(c, Resent(l, "act"))
  <2> DEFINE r == Resent(l, "act")
  <2>1. /\ r \in Calling /\ r.pc \in {"act", "failed"} /\ r.args = l.args
        /\ r.backup = l.backup /\ r.pinned = l.pinned
    BY <1>2, ResentIs
  <2> HIDE DEF r
  <2>2. Fits(c, r, DOMAIN machines, seen[c])
    BY <1>2, <2>1 DEF Fits, ControlPc, Ended
  <2> QED
    BY <1>1, <1>5, <2>1, <2>2, HoldsStep DEF r
<1> QED
  BY <1>3, <1>4, <1>5 DEF Act

-----------------------------------------------------------------------------
(* The steps of a service.                                                 *)

\* A machine settles or is listed: no call moves.
LEMMA ServiceStep ==
    ASSUME IInv, UNCHANGED <<service, call, storageVars>>, Recorded,
           machines' \in Seq(Made), DOMAIN machines' = DOMAIN machines,
           outcome' \in [Caller -> {"none", "running", "done", "failed"}],
           \A n \in DOMAIN machines :
               /\ machines'[n].by = machines[n].by /\ machines'[n].token = machines[n].token
               /\ machines'[n].op = None \/ ( machines'[n].op = machines[n].op
                                              /\ machines'[n].state = machines[n].state )
               /\ machines'[n].state # "gone" => machines[n].state # "gone",
           \A d \in Caller : service # "aws" /\ call[d].pc = "wait" /\ outcome'[d] = "done" =>
               outcome[d] = "done" \/ AtTarget(d)'
    PROVE  IInv' /\ (Kept => Kept')
<1>1. /\ service' = service /\ call' = call /\ versions' = versions /\ current' = current
      /\ dest' = dest /\ strays' = strays /\ TypeOK
  BY DEF storageVars, remote, files, IInv
<1>2. /\ seen' \in [Caller -> Sights] /\ reached' \subseteq Caller
      /\ reached \subseteq reached'
      /\ \A d \in Caller : /\ (Looking(d)' => Looking(d)) => Narrows(seen[d], seen'[d])
                           /\ Looking(d)' => /\ seen'[d].listed \subseteq Named'
                                             /\ Named' \subseteq seen'[d].once
                           /\ AtTarget(d)' => d \in reached'
  BY <1>1, RecordedIs
<1>3. TypeOK'
  BY <1>1, <1>2 DEF TypeOK
<1>4. TransfersHold' /\ VersionsAreChecked' /\ FileIsKept' /\ Kept' = Kept
  BY <1>1 DEF IInv, TransfersHold, VersionsAreChecked, FileIsKept, Kept
<1>5. CallsArePlaced'
  BY <1>1 DEF IInv, CallsArePlaced, Placed
<1>6. SeenHolds'
  <2> SUFFICES ASSUME NEW d \in Caller PROVE SeenIsRead(d)'
    BY DEF SeenHolds
  <2>1. SeenIsRead(d) /\ Looking(d)' = Looking(d)
    BY <1>1 DEF IInv, SeenHolds, Looking
  <2>2. Narrows(seen[d], seen'[d])
    BY <1>2, <2>1
  <2> QED
    BY <1>1, <1>2, <2>1, <2>2, NarrowsIs DEF SeenIsRead
<1>7. ReachedHolds'
  <2> SUFFICES ASSUME NEW d \in Caller PROVE ReachedIsRead(d)'
    BY DEF ReachedHolds
  <2>1. ReachedIsRead(d)
    BY DEF IInv, ReachedHolds
  <2> QED
    BY <1>1, <1>2, <2>1 DEF ReachedIsRead
<1>8. MachinesBelong'
  <2> SUFFICES ASSUME NEW d \in Caller, NEW n \in DOMAIN machines PROVE Belongs(d, n)'
    BY DEF MachinesBelong
  <2>1. Belongs(d, n) /\ None \notin Caller
    BY HandleAssumption DEF IInv, MachinesBelong
  <2> QED
    BY <1>1, <2>1 DEF Belongs
<1>9. OneOfAName'
  <2>1. Live' \subseteq Live
    BY DEF Live
  <2> QED
    BY <1>1, <2>1 DEF IInv, OneOfAName
<1>10. OneMachinePerCreate'
  BY DEF IInv, OneMachinePerCreate
<1>11. NamesFailClosed'
  <2> SUFFICES ASSUME service = "aws", NEW d \in Caller, NEW n \in DOMAIN machines
               PROVE  /\ machines'[n].by = d => NoneListed(seen'[d])
                      /\ machines'[n].op = d /\ call[d].args.id = None
                         /\ call[d].args.op # "create" => OnlyListed(seen'[d], n)
    BY <1>1 DEF NamesFailClosed
  <2>1. /\ machines[n].by = d => NoneListed(seen[d])
        /\ machines[n].op = d /\ call[d].args.id = None /\ call[d].args.op # "create" =>
               OnlyListed(seen[d], n)
        /\ None \notin Caller
    BY HandleAssumption DEF IInv, NamesFailClosed
  <2>2. Narrows(seen[d], seen'[d])
    BY <1>1, <1>2 DEF Looking
  <2> QED
    BY <2>1, <2>2, NarrowsIs
<1> QED
  BY <1>3, <1>4, <1>5, <1>6, <1>7, <1>8, <1>9, <1>10, <1>11 DEF IInv

\* What an operation comes to: done only with the machine where it should be.
LEMMA RestsIs ==
    ASSUME NEW op \in Control, NEW state \in Doing(op), NEW rest \in Rests(state)
    PROVE  /\ rest[1] \in State /\ rest[2] \in {"done", "failed"}
           /\ rest[1] # "gone" => state # "gone"
           /\ rest[2] = "done" => rest[1] = Target(op)
<1>1. CASE state = "pending"
  BY <1>1 DEF Rests, Doing, Control, State, Target
<1>2. CASE state = "stopping"
  BY <1>2 DEF Rests, Doing, Control, State, Target
<1>3. CASE state = "deleting"
  BY <1>3 DEF Rests, Doing, Control, State, Target
<1>4. CASE state = "running"
  BY <1>4 DEF Rests, Doing, Control, State, Target
<1>5. CASE state = "stopped"
  BY <1>5 DEF Rests, Doing, Control, State, Target
<1> QED
  BY <1>1, <1>2, <1>3, <1>4, <1>5 DEF Doing, Control

\* A machine comes to rest where the operation on it takes it, or fails it.
LEMMA SettleStep ==
    ASSUME IInv, NEW m \in DOMAIN machines, Settle(m), UNCHANGED storageVars, Recorded
    PROVE  IInv' /\ (Kept => Kept')
<1>1. /\ TypeOK /\ machines[m] \in Made /\ machines[m].op # None
      /\ service' = service /\ call' = call
  BY DEF Settle, IInv, TypeOK
<1> PICK e \in Caller : e = machines[m].op
  BY <1>1 DEF Made
<1>2. call[e].args.op \in Control /\ machines[m].state \in Doing(call[e].args.op)
  BY <1>1 DEF IInv, MachinesBelong, Belongs
<1>3. PICK rest \in Rests(machines[m].state) :
          /\ machines' = [machines EXCEPT ![m].state = rest[1], ![m].op = None]
          /\ outcome' = [outcome EXCEPT ![e] = rest[2]]
  BY DEF Settle
<1>4. /\ rest[1] \in State /\ rest[2] \in {"done", "failed"}
      /\ rest[1] # "gone" => machines[m].state # "gone"
      /\ rest[2] = "done" => rest[1] = Target(call[e].args.op)
  BY <1>2, RestsIs
<1> DEFINE made == [machines[m] EXCEPT !.state = rest[1], !.op = None]
<1>5. /\ made \in Made /\ made.state = rest[1] /\ made.op = None
      /\ made.by = machines[m].by /\ made.token = machines[m].token
  BY <1>1, <1>4 DEF Made
<1>6. machines' = [machines EXCEPT ![m] = made]
  BY <1>1, <1>3 DEF Made
<1> HIDE DEF made
<1>7. /\ machines' \in Seq(Made) /\ DOMAIN machines' = DOMAIN machines /\ machines'[m] = made
      /\ \A n \in DOMAIN machines : n # m => machines'[n] = machines[n]
  BY <1>1, <1>5, <1>6, OneChanges
<1>8. /\ outcome' \in [Caller -> {"none", "running", "done", "failed"}]
      /\ outcome'[e] = rest[2] /\ \A d \in Caller : d # e => outcome'[d] = outcome[d]
  BY <1>1, <1>3, <1>4 DEF TypeOK
<1>9. ASSUME service # "aws", call[e].pc = "wait", rest[2] = "done" PROVE AtTarget(e)'
  <2> DEFINE goal == Target(call[e].args.op)
  <2>1. machines'[m].state = goal
    BY <1>4, <1>5, <1>7, <1>9
  <2>2. CASE goal = "gone"
    <3>1. machines[m].state # "gone"
      BY <1>2 DEF Doing
    <3>2. \A n \in DOMAIN machines : machines[n].state # "gone" => n = m
      BY <1>9, <3>1 DEF IInv, OneOfAName, Live
    <3>3. Live' = {}
      BY <1>7, <2>1, <2>2, <3>2 DEF Live
    <3> QED
      BY <1>1, <1>9, <2>2, <3>3 DEF AtTarget, Power
  <2>3. CASE goal # "gone"
    <3>1. m \in Live'
      BY <1>7, <2>1, <2>3 DEF Live
    <3> QED
      BY <1>1, <1>9, <2>1, <2>3, <3>1 DEF AtTarget, Power
  <2> QED
    BY <2>2, <2>3
<1>10. \A n \in DOMAIN machines :
           /\ machines'[n].by = machines[n].by /\ machines'[n].token = machines[n].token
           /\ machines'[n].op = None \/ ( machines'[n].op = machines[n].op
                                          /\ machines'[n].state = machines[n].state )
           /\ machines'[n].state # "gone" => machines[n].state # "gone"
  BY <1>4, <1>5, <1>7
<1>11. \A d \in Caller : service # "aws" /\ call[d].pc = "wait" /\ outcome'[d] = "done" =>
           outcome[d] = "done" \/ AtTarget(d)'
  BY <1>8, <1>9
<1> QED
  BY <1>1, <1>7, <1>8, <1>10, <1>11, ServiceStep

LEMMA ListStep ==
    ASSUME IInv, NEW m \in DOMAIN machines, List(m), UNCHANGED storageVars, Recorded
    PROVE  IInv' /\ (Kept => Kept')
<1> DEFINE made == [machines[m] EXCEPT !.listed = ~@]
<1>1. /\ TypeOK /\ machines[m] \in Made /\ machines' = [machines EXCEPT ![m] = made]
      /\ service' = service /\ call' = call /\ outcome' = outcome
  BY DEF List, IInv, TypeOK
<1>2. (~machines[m].listed) \in BOOLEAN
  OBVIOUS
<1>3. /\ made \in Made /\ made.state = machines[m].state /\ made.op = machines[m].op
      /\ made.by = machines[m].by /\ made.token = machines[m].token
  BY <1>1, <1>2 DEF Made
<1> HIDE DEF made
<1>4. /\ machines' \in Seq(Made) /\ DOMAIN machines' = DOMAIN machines /\ machines'[m] = made
      /\ \A n \in DOMAIN machines : n # m => machines'[n] = machines[n]
  BY <1>1, <1>3, OneChanges
<1>5. \A n \in DOMAIN machines :
          /\ machines'[n].by = machines[n].by /\ machines'[n].token = machines[n].token
          /\ machines'[n].op = machines[n].op /\ machines'[n].state = machines[n].state
  BY <1>3, <1>4
<1>6. outcome' \in [Caller -> {"none", "running", "done", "failed"}]
  BY <1>1 DEF TypeOK
<1> QED
  BY <1>1, <1>4, <1>5, <1>6, ServiceStep
-----------------------------------------------------------------------------
(* The invariant holds.                                                    *)

LEMMA InvariantInit == Init => IInv
<1> SUFFICES ASSUME Init PROVE IInv
  OBVIOUS
<1>1. /\ service \in Service /\ call = [c \in Caller |-> Idle] /\ Idle \in Calling
  BY DEF Init, StorageInit, HandleInit, Idle, Unread, Calling
<1>2. /\ call \in [Caller -> Calling]
      /\ \A c \in Caller : call[c] = Idle /\ call[c].pc = "idle" /\ call[c].backup = None
  BY <1>1 DEF Idle
<1>3. /\ versions \in Seq(Stored) /\ current \in 0..Len(versions)
      /\ dest \in Data \cup {None} /\ strays \subseteq Data
  <2>1. CASE versions = <<>>
    BY <2>1 DEF Init, StorageInit
  <2>2. ASSUME NEW d \in Data, NEW k \in Data \cup {None},
               versions = <<[data |-> d, crc |-> k, by |-> None]>>
        PROVE  <1>3
    <3>1. [data |-> d, crc |-> k, by |-> None] \in Stored
      BY DEF Stored
    <3>2. versions \in Seq(Stored) /\ Len(versions) = 1 /\ current = Len(versions)
      BY <2>2, <3>1 DEF Init, StorageInit
    <3> QED
      BY <3>2 DEF Init, StorageInit
  <2> QED
    BY <2>1, <2>2 DEF Init, StorageInit
<1>4. PICK states \in Earlier : \E shown \in SUBSET DOMAIN states :
          /\ service # "aws" => Len(states) <= 1
          /\ machines = [m \in DOMAIN states |->
                            [Machine(states[m], None, None) EXCEPT !.listed = m \in shown]]
  BY DEF Init, ComputeInit
<1>5. states \in Seq({"running", "stopped"})
  BY RawComputeAssumption
<1>6. \A m \in DOMAIN machines : /\ machines[m] \in Made
                                 /\ machines[m].by = None /\ machines[m].op = None
  <2> SUFFICES ASSUME NEW m \in DOMAIN machines
               PROVE  machines[m] \in Made /\ machines[m].by = None /\ machines[m].op = None
    OBVIOUS
  <2> DEFINE Shown(is) == [Machine(states[m], None, None) EXCEPT !.listed = is]
  <2>1. \E is \in BOOLEAN : machines[m] = Shown(is)
    <3>1. PICK shown \in SUBSET DOMAIN states :
              machines = [n \in DOMAIN states |->
                             [Machine(states[n], None, None) EXCEPT !.listed = n \in shown]]
      BY <1>4
    <3>2. m \in DOMAIN states
      BY <3>1
    <3>3. machines[m] = Shown(m \in shown)
      BY <3>1, <3>2
    <3>4. (m \in shown) \in BOOLEAN
      OBVIOUS
    <3> QED
      <4> DEFINE is == m \in shown
      <4> HIDE DEF Shown
      <4>1. is \in BOOLEAN /\ machines[m] = Shown(is)
        BY <3>3, <3>4
      <4> HIDE DEF is
      <4> QED
        BY <4>1
  <2>2. states[m] \in State
    BY <1>4, <1>5 DEF State
  <2> QED
    BY <2>1, <2>2 DEF Machine, Made
<1>7. machines \in Seq(Made)
  <2>1. machines = [m \in 1..Len(states) |-> machines[m]] /\ Len(states) \in Nat
    BY <1>4, <1>5
  <2>2. \A m \in 1..Len(states) : machines[m] \in Made
    BY <1>4, <1>5, <1>6
  <2> QED
    BY <2>1, <2>2
<1>8. TypeOK
  <2>1. /\ outcome \in [Caller -> {"none", "running", "done", "failed"}]
        /\ seen \in [Caller -> Sights] /\ reached \subseteq Caller
    BY DEF Init, ComputeInit, Sights
  <2> QED
    BY <1>1, <1>2, <1>3, <1>7, <2>1 DEF TypeOK
<1>9. TransfersHold /\ FileIsKept
  BY <1>2 DEF TransfersHold, Downloads, Uploads, FileIsKept, Moving
<1>10. VersionsAreChecked
  BY DEF Init, StorageInit, VersionsAreChecked
<1>11. CallsArePlaced /\ SeenHolds /\ ReachedHolds
  BY <1>2 DEF CallsArePlaced, Placed, TransferPc, Moving, ControlPc, SeenHolds, SeenIsRead,
              Looking, ReachedHolds, ReachedIsRead, AtTarget
<1>12. MachinesBelong /\ OneMachinePerCreate /\ NamesFailClosed
  BY <1>6, HandleAssumption DEF MachinesBelong, Belongs, OneMachinePerCreate, NamesFailClosed
<1>13. OneOfAName
  BY <1>4, <1>5 DEF OneOfAName, Live
<1> QED
  BY <1>8, <1>9, <1>10, <1>11, <1>12, <1>13 DEF IInv

LEMMA InvariantNext == IInv /\ [Next]_vars => IInv' /\ (Kept => Kept')
<1> SUFFICES ASSUME IInv, [Next]_vars PROVE IInv' /\ (Kept => Kept')
  OBVIOUS
<1>1. ASSUME StorageNext, UNCHANGED computeVars PROVE IInv' /\ (Kept => Kept')
  <2>1. PICK c \in Caller :
            \/ BeginTransfer(c) \/ Put(c) \/ HeadObject(c) \/ Remove(c)
            \/ Stat(c) \/ Fetch(c) \/ Body(c)
            \/ Rename(c) \/ Exists(c) \/ Backup(c) \/ Swap(c) \/ Discard(c) \/ Restore(c)
            \/ Crash(c) /\ UNCHANGED storageVars
    BY <1>1 DEF StorageNext
  <2>2. CASE BeginTransfer(c) \/ Put(c) \/ HeadObject(c) \/ Remove(c) \/ Stat(c)
    BY <1>1, <2>2, BeginTransferStep, PutStep, HeadObjectStep, RemoveStep, StatStep
  <2>3. CASE Fetch(c) \/ Body(c) \/ Rename(c) \/ Exists(c) \/ Backup(c)
    BY <1>1, <2>3, FetchStep, BodyStep, RenameStep, ExistsStep, BackupStep
  <2>4. CASE Swap(c) \/ Discard(c) \/ Restore(c)
    BY <1>1, <2>4, SwapStep, DiscardStep, RestoreStep
  <2>5. CASE Crash(c) /\ UNCHANGED storageVars
    BY <1>1, <2>5, CrashStep DEF computeVars
  <2> QED
    BY <2>1, <2>2, <2>3, <2>4, <2>5
<1>2. ASSUME ComputeNext, UNCHANGED storageVars PROVE IInv' /\ (Kept => Kept')
  <2>1. Recorded
    BY <1>2 DEF ComputeNext
  <2>2. ASSUME NEW c \in Caller,
               \/ BeginControl(c) \/ LookupPage(c) \/ LookupId(c) \/ LookupFails(c)
               \/ Create(c) \/ Act(c)
               \/ Poll(c) \/ PollPower(c) \/ WaitFails(c)
        PROVE  IInv' /\ (Kept => Kept')
    BY <1>2, <2>1, <2>2, BeginControlStep, LookupPageStep, LookupIdStep, LookupFailsStep,
       CreateStep, ActStep, PollStep, PollPowerStep, WaitFailsStep
  <2>3. ASSUME NEW c \in Caller, Crash(c), UNCHANGED <<machines, outcome>>
        PROVE  IInv' /\ (Kept => Kept')
    BY <1>2, <2>1, <2>3, CrashStep
  <2>4. ASSUME NEW m \in DOMAIN machines, Settle(m) \/ List(m) PROVE IInv' /\ (Kept => Kept')
    BY <1>2, <2>1, <2>4, SettleStep, ListStep
  <2> QED
    BY <1>2, <2>2, <2>3, <2>4 DEF ComputeNext, Step
<1>3. CASE UNCHANGED vars
  <2>1. /\ service' = service /\ call' = call /\ versions' = versions /\ current' = current
        /\ dest' = dest /\ strays' = strays /\ machines' = machines /\ outcome' = outcome
        /\ seen' = seen /\ reached' = reached
    BY <1>3 DEF vars, storageVars, remote, files, computeVars, history
  <2>2. TypeOK' /\ TransfersHold' /\ VersionsAreChecked' /\ FileIsKept' /\ Kept' = Kept
    BY <2>1 DEF IInv, TypeOK, TransfersHold, VersionsAreChecked, FileIsKept, Kept
  <2>3. CallsArePlaced' /\ SeenHolds' /\ ReachedHolds'
    BY <2>1 DEF IInv, CallsArePlaced, Placed, SeenHolds, SeenIsRead, Looking, Named, Live,
                ReachedHolds, ReachedIsRead, AtTarget, Power
  <2>4. MachinesBelong' /\ OneOfAName' /\ OneMachinePerCreate' /\ NamesFailClosed'
    BY <2>1 DEF IInv, MachinesBelong, Belongs, OneOfAName, Live, OneMachinePerCreate,
                NamesFailClosed
  <2> QED
    BY <2>2, <2>3, <2>4 DEF IInv
<1> QED
  BY <1>1, <1>2, <1>3 DEF Next

THEOREM Invariant == Spec => []IInv
<1> QED
  BY InvariantInit, InvariantNext, PTL DEF Spec
-----------------------------------------------------------------------------
(* What follows for objects, files and machines.                           *)

\* The variables keep their types: in particular the destination never holds a
\* file that is not whole, and no call is bound to a version or a machine that
\* is not a number of one.
THEOREM TypeCorrect == Spec => []TypeOK
<1>1. IInv => TypeOK
  BY DEF IInv
<1> QED
  BY <1>1, Invariant, PTL

\* A call that succeeds tells the truth, whatever other processes put, remove
\* and download meanwhile: a download delivers the contents of the version whose
\* metadata it read, and an upload with a checksum names a version that has it.
THEOREM SuccessTrue == Spec => []SuccessIsTrue
<1>1. ASSUME IInv PROVE SuccessIsTrue
  <2> SUFFICES ASSUME NEW c \in Caller, call[c].pc = "done"
               PROVE  CASE call[c].args.op \in {"get", "get_file"} ->
                               call[c].result = versions[call[c].pinned].data
                        [] call[c].args.op = "put" /\ call[c].args.crc ->
                               /\ versions[call[c].result].crc = call[c].args.data
                               /\ service # "azure" =>
                                      versions[call[c].result].data = call[c].args.data
                        [] OTHER -> TRUE
    BY DEF SuccessIsTrue
  <2>1. Downloads(call[c], versions) /\ Uploads(call[c], versions, service)
    BY <1>1 DEF IInv, TransfersHold
  <2>2. CASE call[c].args.op \in {"get", "get_file"}
    BY <2>1, <2>2 DEF Downloads
  <2>3. CASE call[c].args.op = "put" /\ call[c].args.crc
    BY <2>1, <2>3 DEF Uploads
  <2>4. CASE call[c].args.op \notin {"get", "get_file"} /\ ~(call[c].args.op = "put" /\ call[c].args.crc)
    BY <2>4
  <2> QED
    BY <2>2, <2>3, <2>4
<1> QED
  BY <1>1, Invariant, PTL

\* The destination is always a whole file or none, and once there is such a file
\* there always is one, at its place or in a back-up: a step that takes the last
\* one away would take a back-up that nothing hangs on.
THEOREM FileRecoverable == Spec => FileIsRecoverable
<1>1. ASSUME IInv, [Next]_vars
      PROVE  [dest' \in Data \cup {None} /\ (HasFile => HasFile')]_<<service, call, storageVars>>
  <2>1. IInv' /\ (Kept => Kept')
    BY <1>1, InvariantNext
  <2>2. dest' \in Data \cup {None}
    BY <2>1 DEF IInv, TypeOK
  <2>3. HasFile => Kept
    BY <1>1 DEF IInv, FileIsKept, HasFile, Kept
  <2>4. Kept' => HasFile'
    BY DEF HasFile, Kept
  <2> QED
    BY <2>1, <2>2, <2>3, <2>4
<1> QED
  BY <1>1, Invariant, PTL DEF Spec, FileIsRecoverable

\* One create makes one machine at most, although RunInstances is sent again
\* after an answer that was lost and is carried out each time it arrives.
THEOREM OneMachine == Spec => []OneMachinePerCreate
<1>1. IInv => OneMachinePerCreate
  BY DEF IInv
<1> QED
  BY <1>1, Invariant, PTL

\* Of what EC2 lists, a name resolves to nothing but what it stands for: a
\* process creates a machine only if none of the name was listed all the time
\* that it looked, and acts by name on a machine only if no other was, and that
\* one was listed at a moment of it.
THEOREM FailClosed == Spec => []NamesFailClosed
<1>1. IInv => NamesFailClosed
  BY DEF IInv
<1> QED
  BY <1>1, Invariant, PTL

\* An operation that was waited for has had its effect: the machine was in the
\* state asked for after the request was accepted, whatever other processes did.
THEOREM WaitTrue == Spec => []WaitIsTrue
<1>1. IInv => WaitIsTrue
  BY DEF IInv, ReachedHolds, ReachedIsRead, WaitIsTrue
<1> QED
  BY <1>1, Invariant, PTL
=============================================================================
