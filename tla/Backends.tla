------------------------------- MODULE Backends --------------------------------
(***************************************************************************)
(* How an archive is opened and read (src/backend/ua_detect.c,             *)
(* ua_backend.c and the two backends behind its table): the format is told *)
(* from what the file begins with, one of two decoders is opened for it,   *)
(* and every call goes to that one until it is closed.  The walk of zip    *)
(* and 7z has the same variables.                                          *)
(***************************************************************************)
EXTENDS FolderStream

CONSTANT MaxOpens  \* bound: how often the archive is opened (main_host: twice)

ASSUME BackendsAssumption == MaxOpens \in Nat

VARIABLES
  content,         \* what the file begins with
  v,               \* the table in use: "none" | "zip" | "7z"
  opens

backendVars == <<folderVars, content, v, opens>>

Zip == INSTANCE ZipStream

-------------------------------------------------------------------------------
(* ua_detect_buffer.  A tar is known by what stands at offset 257, so a    *)
(* file may look like a tar and like something else; "none" is a file that *)
(* is empty or cannot be read.                                             *)
Content == [magic : {"zip_local", "zip_empty", "zip_spanned", "7z", "xz", "gzip",
                     "other", "none"},
            ustar : BOOLEAN]

Format(c) == CASE c.magic \in {"zip_local", "zip_empty", "zip_spanned"} -> "zip"
               [] c.magic = "7z"   -> "7z"
               [] c.magic = "xz"   -> "tar.xz"
               [] c.magic = "gzip" -> "tar.gz"
               [] c.magic = "other" /\ c.ustar -> "tar"
               [] OTHER -> "unknown"

BackendsInit == /\ FolderInit
                /\ content \in Content
                /\ v = "none"
                /\ opens = 0

(* ua_backend_open, zip_open and sevenz_open: the decoder's state is new.  *)
OpenBackend == /\ v = "none" /\ opens < MaxOpens
               /\ Format(content) \in {"zip", "7z"}
               /\ v' = Format(content)
               /\ opens' = opens + 1
               /\ cursor' = 1 /\ current' = 0 /\ walks' = 0
               /\ folder_open' = FALSE /\ folder' = 0 /\ produced' = 0
               /\ out_buf' = <<>> /\ out_pos' = 0 /\ in_place' = FALSE
               /\ pc' = "idle" /\ want' = 0 /\ outcome' = "none"
               /\ got' = <<>> /\ begun' = <<>>
               /\ UNCHANGED content

(* Not a format of this build, or the backend cannot read the headers, has *)
(* no memory, finds encryption or a path that is too long.                 *)
CannotOpen == /\ v = "none" /\ opens < MaxOpens
              /\ opens' = opens + 1
              /\ UNCHANGED <<folderVars, content, v>>

(* ua_backend_close *)
CloseBackend == /\ v # "none" /\ pc = "idle"
                /\ v' = "none"
                /\ UNCHANGED <<folderVars, content, opens>>

SevenZipCall == v = "7z" /\ FolderNext /\ UNCHANGED <<content, v, opens>>

ZipCall == /\ v = "zip" /\ Zip!ZipStep
           /\ UNCHANGED <<streamVars, want, begun, content, v, opens>>

BackendsNext == OpenBackend \/ CannotOpen \/ CloseBackend \/ SevenZipCall \/ ZipCall

BackendsSpec == BackendsInit /\ [][BackendsNext]_backendVars

(* An extraction that has begun goes on, in either backend. *)
FairBackendsSpec == /\ BackendsSpec
                    /\ WF_backendVars(v = "7z" /\ Extraction /\ UNCHANGED <<content, v, opens>>)
                    /\ WF_backendVars(v = "zip" /\ Zip!ZipExtraction
                                      /\ UNCHANGED <<streamVars, want, begun, content, v, opens>>)
-------------------------------------------------------------------------------
BackendsTypeOK == /\ FolderTypeOK
                  /\ content \in Content
                  /\ v \in {"none", "zip", "7z"}
                  /\ opens \in 0..MaxOpens

(* OwnBytes of module FolderStream, when the folder decoder is in use: a   *)
(* file gets the units of its own place in its own folder, and never more  *)
(* than its size, whatever was extracted, skipped, refused or tried in     *)
(* parallel before, and wherever decode rounds end (folder_fill,           *)
(* folder_skip_to, FOLDER_POS).                                            *)
SevenZipOwnBytes == v = "7z" => OwnBytes

(* What the sink has, if it is a first part of the entry's own data. *)
OwnUnit(k) == IF v = "zip" THEN <<current, k - 1>>
              ELSE <<File[current].folder, FileStart(current) + k - 1>>
Foreign == 0 - 1
Taken == IF \A k \in DOMAIN got : got[k] = OwnUnit(k) THEN Len(got) ELSE Foreign

WhenOpen(x, closed) == IF v = "none" THEN closed ELSE x

(* Zip and 7z, however differently they find and decode an entry, look the *)
(* same to the extractor: a walk in order that can be repeated, the        *)
(* entry's own data from its first unit on, and success only with all of   *)
(* it (ua_backend.h, the table of ua_backend_vtable).                      *)
Source == INSTANCE EntrySource WITH
            Sizes   <- [i \in DOMAIN File |-> File[i].size],
            open    <- v # "none",
            at      <- WhenOpen(cursor - 1, 0),
            entry   <- WhenOpen(current, 0),
            taken   <- WhenOpen(Taken, 0),
            verdict <- WhenOpen(outcome, "none")
ImplementsSource == Source!SourceSpec
===============================================================================
