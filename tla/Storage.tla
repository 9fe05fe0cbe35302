------------------------------- MODULE Storage -------------------------------
(***************************************************************************)
(* One object and one destination file, used by several processes: put,    *)
(* get, get_file and remove (storage.hpp and client.hpp; Bucket in         *)
(* providers/gcp.hpp), and the download of a file with its move into place *)
(* (detail::http in http.hpp), all under include/cldmux.  Requests fail,   *)
(* answers are lost, files fail to move and processes die.                 *)
(***************************************************************************)
EXTENDS Handle, Sequences

CONSTANTS
    Data,         \* contents
    Partial,      \* a file not written to its end
    Damaged,      \* contents changed on the way
    Replaces      \* whether rename() may replace a file on this platform

\* A call: what it does, the contents it puts and those it sends (the file
\* may change between the checksum and the upload), whether it asks for a
\* checksum, and the version it expects: 0 for none, None for any.
Transfer == {"put", "get", "get_file", "remove"}
TransferArgs == [op : Transfer, data : Data, sent : Data, crc : BOOLEAN, expects : Nat \cup {None}]

ASSUME StorageAssumption ==
    /\ \A c \in Caller : \A a \in Calls[c] : a.op \in Transfer => a \in TransferArgs
    /\ Partial \notin Data /\ Damaged \notin Data /\ None \notin Data

VARIABLES
    versions,    \* what was ever stored: contents, checksum in the metadata, author
    current,     \* the version the object has, 0 when there is none
    dest,        \* the destination file
    strays       \* contents of back-ups nobody will move any more

remote == <<versions, current>>
files == <<dest, strays>>
storageVars == <<remote, files>>

\* The destination may hold a file from before, and the object a version,
\* put with a checksum or without.
StorageInit ==
    /\ HandleInit
    /\ strays = {} /\ dest \in {None} \cup Data
    /\ versions \in {<<>>} \cup {<<[data |-> d, crc |-> k, by |-> None]>> :
                                    d \in Data, k \in Data \cup {None}}
    /\ \A v \in DOMAIN versions : versions[v].crc \in {None, versions[v].data}
    /\ service = "gcp" => \A v \in DOMAIN versions : versions[v].crc # None
    /\ current = Len(versions)

Only(c, new) == Go(c, new) /\ UNCHANGED storageVars

BeginTransfer(c) ==
    /\ call[c].pc = "idle"
    /\ \E a \in Calls[c] :
          /\ a.op \in Transfer
          /\ Only(c, [Idle EXCEPT !.args = a,
                        !.pc = IF a.op \in {"put", "remove"} THEN a.op ELSE "stat"])
-----------------------------------------------------------------------------
(* Upload and removal                                                      *)

\* conditional_headers(), or ifGenerationMatch.
Matches(l) == l.args.expects = None \/ l.args.expects = current

\* S3 and Cloud Storage compare what they receive with the checksum sent;
\* Blob Storage only keeps it with the object.
Receives(l) == service = "azure" \/ ~l.args.crc \/ l.args.sent = l.args.data

\* The answer to the upload: Cloud Storage's carries the checksum to compare,
\* the others' is followed by a HEAD of the object.
Answered(l, version) ==
    IF service = "gcp" THEN Done(l, version)
    ELSE [l EXCEPT !.pc = "head", !.attempt = 0]

\* A version: its contents, the checksum kept with it and who put it.  Cloud
\* Storage computes a checksum of its own.
Version(l, c) ==
    [data |-> l.args.sent, by |-> c,
     crc |-> IF service = "gcp" THEN l.args.sent ELSE IF l.args.crc THEN l.args.data ELSE None]

Put(c) ==
    LET l == call[c]
        new == Len(versions) + 1
    IN  /\ l.pc = "put"
        /\ \/ ~Matches(l) /\ Only(c, Refused(l))
           \/ Matches(l) /\ ~Receives(l) /\ Only(c, Failed(l))
           \/ /\ Matches(l) /\ Receives(l)
              /\ versions' = Append(versions, Version(l, c)) /\ current' = new
              /\ \/ Go(c, Answered(l, new))
                 \/ Go(c, Again(l, "put"))
              /\ UNCHANGED files
           \/ Only(c, Again(l, "put"))

\* aws_storage_stat() or azure_storage_stat() after the upload: the object
\* must carry the checksum that was sent.
SameChecksum(l) == current # 0 /\ (~l.args.crc \/ versions[current].crc = l.args.data)
HeadObject(c) ==
    LET l == call[c]
    IN  /\ l.pc = "head"
        /\ \/ SameChecksum(l) /\ Only(c, Done(l, current))
           \/ ~SameChecksum(l) /\ Only(c, Failed(l))
           \/ Only(c, Again(l, "head"))

\* S3 answers a removal of nothing like any other.
Remove(c) ==
    LET l == call[c]
    IN  /\ l.pc = "remove"
        /\ \/ /\ current # 0 \/ service = "aws"
              /\ current' = 0
              /\ Go(c, Done(l, 0)) \/ Go(c, Again(l, "remove"))
              /\ UNCHANGED <<versions, files>>
           \/ current = 0 /\ service # "aws" /\ Only(c, Failed(l))
           \/ Only(c, Again(l, "remove"))
-----------------------------------------------------------------------------
(* Download                                                                *)

\* The metadata first.  Cloud Storage downloads want a checksum.
Stat(c) ==
    LET l == call[c]
    IN  /\ l.pc = "stat"
        /\ \/ current = 0 /\ Only(c, Failed(l))
           \/ /\ current # 0
              /\ Only(c, [l EXCEPT !.pc = "fetch", !.attempt = 0, !.pinned = current,
                                   !.crc = versions[current].crc])
           \/ Only(c, Again(l, "stat"))

LatestServed(l) == TRUE   \* slip
\* The request names the version of the metadata.
Pinned(l) == current = l.pinned

\* A download opens its temporary file before the request is answered.
Fetch(c) ==
    LET l == call[c]
    IN  /\ l.pc = "fetch"
        /\ Only(c, [l EXCEPT !.pc = "body",
                             !.temp = IF l.args.op = "get_file" THEN Partial ELSE None])

\* The body has arrived, whole or not.  A file that fails its checksum throws
\* inside the call that is retried, a string after it.
Checked(l, body) == l.crc = None \/ body = l.crc
Received(l, body) ==
    CASE ~Checked(l, body) -> IF l.args.op = "get_file" THEN Again(l, "fetch") ELSE Failed(l)
      [] Checked(l, body) /\ l.args.op = "get" -> Done(l, body)
      [] OTHER -> [l EXCEPT !.pc = "rename", !.temp = body]

\* Contents are damaged on the way only where a checksum can tell.
Body(c) ==
    LET l == call[c]
    IN  /\ l.pc = "body"
        /\ \/ ~Pinned(l) /\ Only(c, Failed(l))
           \/ /\ Pinned(l) /\ current # 0
              /\ \/ Only(c, Received(l, versions[current].data))
                 \/ l.crc # None /\ Only(c, Received(l, Damaged))
           \/ Only(c, Again(l, "fetch"))
-----------------------------------------------------------------------------
(* The move into place                                                     *)

\* rename() onto a file: it replaces it, or it fails, as the platform has it.
Free == dest = None \/ Replaces

Rename(c) ==
    LET l == call[c]
    IN  /\ l.pc = "rename"
        /\ \/ /\ Free /\ dest' = l.temp
              /\ Go(c, Done([l EXCEPT !.temp = None], l.temp)) /\ UNCHANGED <<remote, strays>>
           \/ Only(c, [l EXCEPT !.pc = "exists"])

\* Only a destination that is there is the reason for the failure.
Exists(c) ==
    LET l == call[c]
    IN  /\ l.pc = "exists"
        /\ Only(c, IF dest # None THEN [l EXCEPT !.pc = "backup"] ELSE Again(l, "fetch"))

\* slip
RemoveOld(c) ==
    LET l == call[c]
    IN  l.pc = "backup" /\ dest' = None /\ Go(c, [l EXCEPT !.pc = "swap"])
        /\ UNCHANGED <<remote, strays>>

\* The old file goes to a name of its own.
Backup(c) ==
    LET l == call[c]
    IN  /\ l.pc = "backup"
        /\ \/ /\ dest # None
              /\ dest' = None /\ Go(c, [l EXCEPT !.pc = "swap", !.backup = dest])
              /\ UNCHANGED <<remote, strays>>
           \/ Only(c, Again(l, "fetch"))

Swap(c) ==
    LET l == call[c]
    IN  /\ l.pc = "swap"
        /\ \/ /\ Free /\ dest' = l.temp
              /\ Go(c, [l EXCEPT !.pc = "discard", !.temp = None, !.result = l.temp])
              /\ UNCHANGED <<remote, strays>>
           \/ Only(c, [l EXCEPT !.pc = "restore"])

\* The new file is in place: the old one is removed, if it can be.
Discard(c) ==
    LET l == call[c]
    IN  /\ l.pc = "discard"
        /\ strays' \in {strays, strays \cup {l.backup}}
        /\ Go(c, Done([l EXCEPT !.backup = None], l.result))
        /\ UNCHANGED <<remote, dest>>

\* It is not: the old one comes back, if it can.
Restore(c) ==
    LET l == call[c]
        thrown == Again([l EXCEPT !.backup = None], "fetch")
    IN  /\ l.pc = "restore"
        /\ \/ Free /\ dest' = l.backup /\ UNCHANGED strays
           \/ strays' = strays \cup {l.backup} /\ UNCHANGED dest
        /\ Go(c, thrown) /\ UNCHANGED remote

StorageNext ==
    \E c \in Caller :
        \/ BeginTransfer(c) \/ Put(c) \/ HeadObject(c) \/ Remove(c)
        \/ Stat(c) \/ Fetch(c) \/ Body(c)
        \/ Rename(c) \/ Exists(c) \/ Backup(c) \/ Swap(c) \/ Discard(c) \/ Restore(c)
        \/ Crash(c) /\ UNCHANGED storageVars

StorageSpec == StorageInit /\ [][StorageNext]_<<service, call, storageVars>>
-----------------------------------------------------------------------------
(* Properties                                                              *)

\* A call that succeeds tells the truth, whatever other processes put, remove
\* and download meanwhile.  A download delivers the contents of the version
\* whose metadata it read, whole and undamaged, and never two versions mixed
\* (gcp.hpp: bytes cannot silently come from a different object version).  An
\* upload with a checksum names a version that has that checksum; where the
\* service compares it, the version also has those contents.
SuccessIsTrue ==
    \A c \in Caller :
        LET l == call[c]
            v == versions[l.result]
        IN  l.pc = "done" =>
                CASE l.args.op \in {"get", "get_file"} ->
                        l.result = versions[l.pinned].data
                  [] l.args.op = "put" /\ l.args.crc ->
                        v.crc = l.args.data /\ (service # "azure" => v.data = l.args.data)
                  [] OTHER -> TRUE

\* The destination is always a whole file, the one from before or one that
\* was stored; and once there is such a file there always is one, at its place
\* or in a back-up, also when processes die half way, files do not move, and
\* several downloads replace it at a time (http.hpp: keep the old file
\* recoverable until the new one is safely in place).
HasFile == dest # None \/ strays # {} \/ \E c \in Caller : call[c].backup # None
FileIsRecoverable == [][dest' \in Data \cup {None} /\ (HasFile => HasFile')]_<<service, call, storageVars>>

\* A conditional upload that is refused has stored nothing (provider.hpp:
\* automatic replay is off for mutations whose acceptance is ambiguous).
RefusedPutStoredNothing ==
    \A c \in Caller : call[c].pc = "refused" => \A v \in DOMAIN versions : versions[v].by # c
=============================================================================
