---------------------------- MODULE Attachments ----------------------------
(***************************************************************************)
(* Attachments (src/modules/storage): Attach stores a file by the driver   *)
(* and then a row about it, Get finds the file by the row.  The statements *)
(* are steps, between which the process may be killed.  The driver is the  *)
(* one of files on disk.                                                   *)
(*                                                                         *)
(* The uuid of an attachment is the request that makes it.                 *)
(***************************************************************************)

CONSTANTS Requests,
          Tenant,     \* the tenant of each request, None for the root application
          ByDomain,   \* the requests that reached it by its custom domain
          None

VARIABLES
    at,       \* where each request is
    files,    \* the files: <<prefix, uuid>> -> "part" or "whole"
    blobs,    \* the uuids in the table tracks_blobs
    got,      \* the blob each request has asked for, and whether its file was there
    unread    \* history: the rows that were inserted but could not be read back

vars == <<at, files, blobs, got, unread>>

Init ==
    /\ at = [r \in Requests |-> "start"]
    /\ files = [f \in {} |-> "whole"]
    /\ blobs = {}
    /\ got = [r \in Requests |-> None]
    /\ unread = {}

Goes(r, place) == at' = [at EXCEPT ![r] = place]

\* The splitter puts into the context the subdomain of the host, which is that
\* of one tenant, and is empty on a custom domain and for the root application.
Subdomain(r) == IF r \in ByDomain THEN None ELSE Tenant[r]

\* With the prefix of the subdomain in the context, if there is one.
getStorageKey(r, uuid) == <<Subdomain(r), uuid>>

FileOf(r) == getStorageKey(r, r)

Holds(key, content) == files' = [f \in DOMAIN files \cup {key} |-> IF f = key THEN content ELSE files[f]]

-----------------------------------------------------------------------------
(* Attach.                                                                 *)

\* os.Create, and before it the directory.
Create(r) ==
    /\ at[r] = "start"
    /\ \/ Holds(FileOf(r), "part") /\ Goes(r, "writing")
       \/ files' = files /\ Goes(r, "failed")
    /\ UNCHANGED <<blobs, got, unread>>

\* io.Copy: when the upload or the disk ends early, what is there stays.
Copy(r) ==
    /\ at[r] = "writing"
    /\ \/ Holds(FileOf(r), "whole") /\ Goes(r, "put")
       \/ files' = files /\ Goes(r, "failed")
    /\ UNCHANGED <<blobs, got, unread>>

\* Mutant: the error is returned at once.
FailsAtOnce(r) == Goes(r, "failed")

Fails(r) == Goes(r, "cleaning")

\* blobs.Create, an INSERT and a SELECT.
Insert(r) ==
    /\ at[r] = "put"
    /\ \/ blobs' = blobs \cup {r} /\ Goes(r, "attached") /\ unread' = unread
       \/ blobs' = blobs /\ Fails(r) /\ unread' = unread
       \/ blobs' = blobs \cup {r} /\ Fails(r) /\ unread' = unread \cup {r}
    /\ UNCHANGED <<files, got>>

\* The error of Delete is dropped.
Clean(r) ==
    /\ at[r] = "cleaning"
    /\ \/ files' = [f \in DOMAIN files \ {FileOf(r)} |-> files[f]] /\ Goes(r, "failed")
       \/ files' = files /\ Goes(r, "left")
    /\ UNCHANGED <<blobs, got, unread>>

\* The process is killed, with all the requests it has.
Kill ==
    LET alive == {r \in Requests : at[r] \in {"writing", "put", "cleaning"}}
    IN /\ alive # {}
       /\ at' = [r \in Requests |-> IF r \in alive THEN "killed" ELSE at[r]]
       /\ UNCHANGED <<files, blobs, got, unread>>

-----------------------------------------------------------------------------

\* Get of a blob that the application has read from the table, with the
\* context of another request.
Get(r, uuid) ==
    /\ at[r] = "start" /\ uuid \in blobs
    /\ got' = [got EXCEPT ![r] = [blob |-> uuid, found |-> getStorageKey(r, uuid) \in DOMAIN files]]
    /\ Goes(r, "served")
    /\ UNCHANGED <<files, blobs, unread>>

Next ==
    \/ \E r \in Requests : Create(r) \/ Copy(r) \/ Insert(r) \/ Clean(r)
    \/ \E r, uuid \in Requests : Get(r, uuid)
    \/ Kill

Spec == Init /\ [][Next]_vars

-----------------------------------------------------------------------------
(* Properties.                                                             *)

\* Every variable has its type; files are only where some request's uuid has one.
TypeOK ==
    /\ at \in [Requests -> {"start", "writing", "put", "cleaning", "attached", "failed", "left", "killed", "served"}]
    /\ DOMAIN files \subseteq {FileOf(r) : r \in Requests}
    /\ \A f \in DOMAIN files : files[f] \in {"part", "whole"}
    /\ blobs \subseteq Requests
    /\ got \in [Requests -> [blob : blobs, found : BOOLEAN] \cup {None}]
    /\ unread \subseteq blobs

\* Requests that look where the other stores: by the subdomain of one tenant,
\* or both without a subdomain, whatever their tenants are.
BySubdomain(r) == Tenant[r] # None /\ r \notin ByDomain
Together(r, q) ==
    \/ BySubdomain(r) /\ BySubdomain(q) /\ Tenant[r] = Tenant[q]
    \/ ~BySubdomain(r) /\ ~BySubdomain(q)

\* The row could not be read back, and the file was deleted for that.
Undone(r) == r \in unread /\ at[r] = "failed"

\* A row has its whole file until its request, whose INSERT had succeeded,
\* has deleted it as the row could not be read back (service.go:105-109); a
\* whole file without a row is that of a request on its way or killed, or
\* could not be deleted.  The file is found by whoever comes by the way it
\* was stored: a tenant misses what it stored by its other host, and tenants
\* with custom domains find each other's (module.go:56-58).
RowsAndFilesAgree ==
    /\ \A r \in Requests :
         /\ r \in blobs => Undone(r) \/ (FileOf(r) \in DOMAIN files /\ files[FileOf(r)] = "whole")
         /\ r \notin blobs /\ FileOf(r) \in DOMAIN files /\ files[FileOf(r)] = "whole" =>
              at[r] \in {"put", "cleaning", "killed", "left"}
    /\ \A r \in Requests : got[r] # None =>
         /\ got[r].found => Together(r, got[r].blob)
         /\ ~got[r].found => ~Together(r, got[r].blob) \/ Undone(got[r].blob)
=============================================================================
