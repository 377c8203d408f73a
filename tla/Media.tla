-------------------------------- MODULE Media --------------------------------
(***************************************************************************)
(* What players upload: clips, which the server fetches, shrinks and shows *)
(* after a moderator has seen them, and screenshots that confirm a number  *)
(* of the profile (internal/media, internal/store/highlights.go and        *)
(* stat_claims.go, internal/api/highlights_handlers.go and                 *)
(* profile_extras_handlers.go).                                            *)
(*                                                                         *)
(* The table and the disk are written one after the other.  Of the files   *)
(* of a clip only the video is here; its pictures are made and removed     *)
(* with it.                                                                *)
(***************************************************************************)
EXTENDS Teams

CONSTANTS Clip, Shot, StatKind

\* Clips and screenshots are kept apart.
ASSUME MediaAssumption == Clip \cap Shot = {}

VARIABLES
  clip,    \* highlights
  job,     \* what a goroutine or an upload does about each clip
  claim,   \* stat_claims, as a set; their screenshots are their keys
  disk     \* files in the store: of clips and of claims

mediaVars == <<clip, job, claim, disk>>
NoRow == [st |-> "none", user |-> NoUser, path |-> FALSE]
Shown == {c \in Clip : clip[c].st \notin {"none", "gone"}}
Working(c, s) == job[c] = s
Work(c, s) == job' = [job EXCEPT ![c] = s]
\* A statement of the database about a clip: nothing happens to a row that is gone.
Set(c, row) == clip' = IF c \in Shown THEN [clip EXCEPT ![c] = row] ELSE clip

-------------------------------------------------------------------------------
(* Clips.                                                                  *)

\* The row comes first: the file is named by its key.
CreateHighlight(p, kind, u, c) ==
  /\ clip[c].st = "none" /\ Free({u})
  /\ Arrive(p, kind, Blank)
  /\ clip' = [clip EXCEPT ![c] = [st |-> "processing", user |-> u, path |-> FALSE]]
  /\ Work(c, kind)
  /\ UNCHANGED <<claim, disk>>
HandleCreateHighlight(p, u, c) == Signed(u) /\ CreateHighlight(p, "clip", u, c)
CreateHighlightUpload(p, u, c) == Signed(u) /\ CreateHighlight(p, "upload", u, c)

\* With a file or without one; SaveUpload removes what it could not write in full.
End(c) ==
  /\ \/ Work(c, "fetched") /\ disk' = disk \cup {c}
     \/ Work(c, "failed") /\ UNCHANGED disk
  /\ UNCHANGED <<clip, claim>>
DownloadClip(c) == Working(c, "clip") /\ End(c)
SaveUpload(c)   == Working(c, "upload") /\ End(c)

SetHighlightFailed(c) ==
  /\ Working(c, "failed")
  /\ Set(c, [clip[c] EXCEPT !.st = "failed"])
  /\ Work(c, "none") /\ UNCHANGED <<claim, disk>>

\* Whatever the status has become meanwhile.
SetHighlightProcessed(c) ==
  /\ Working(c, "fetched")
  /\ Set(c, [clip[c] EXCEPT !.st = "pending", !.path = TRUE])
  /\ Work(c, "heavy") /\ UNCHANGED <<claim, disk>>

\* lighten: one clip at a time; it may be light already, or not to be read.
Lighten(c) ==
  /\ Working(c, "heavy") /\ \A o \in Clip : ~Working(o, "shrinking")
  /\ \/ c \in disk /\ Work(c, "shrinking")
     \/ Work(c, "none")
  /\ UNCHANGED <<clip, claim, disk>>

\* Mutant: the lock is kept when ffmpeg fails.
ReplaceOrHold(c) ==
  /\ Working(c, "shrinking")
  /\ \/ disk' = disk \cup {c} /\ Work(c, "none")
     \/ UNCHANGED disk /\ Work(c, "held")
  /\ UNCHANGED <<clip, claim>>

\* The rename puts the file where it was, or ffmpeg fails.
Replace(c) ==
  /\ Working(c, "shrinking")
  /\ disk' = disk \cup {c} \/ UNCHANGED disk
  /\ Work(c, "none") /\ UNCHANGED <<clip, claim>>

HandleModerateHighlight(p, c, st) ==
  /\ Arrive(p, "moderate", Blank)
  /\ clip' = [clip EXCEPT ![c].st = st]
  /\ UNCHANGED <<job, claim, disk>>

\* DeleteHighlight, then the files the row knew.
HandleDeleteHighlight(p, c) ==
  /\ Arrive(p, "unclip", IF clip[c].path THEN [Blank EXCEPT !.at = "remove", !.args = <<c>>] ELSE Blank)
  /\ clip' = [clip EXCEPT ![c] = [NoRow EXCEPT !.st = "gone"]]
  /\ UNCHANGED <<job, claim, disk>>

RemoveFile(p) ==
  /\ At(p, "remove")
  /\ disk' = disk \ {req[p].args[1]}
  /\ Done(p) /\ UNCHANGED <<load, made, clip, job, claim>>

\* The client that uploads is gone: what he sent may be stored, but the statements of his
\* request are refused.
ClientGone(c) ==
  /\ Kind("leave") /\ Working(c, "upload")
  /\ disk' = disk \cup {c} \/ UNCHANGED disk
  /\ Work(c, "none") /\ UNCHANGED <<clip, claim>>

-------------------------------------------------------------------------------
(* Numbers of the profile with a screenshot.                               *)

Claims(u) == {c \in claim : c.user = u}

\* Under a name of its own.
SaveImage(s) == s \notin disk /\ (\A c \in claim : c.shot # s) /\ disk' = disk \cup {s}

HandleSubmitStatClaim(p, u, k, s) ==
  /\ Signed(u) /\ SaveImage(s)
  /\ Arrive(p, "claimed", [Blank EXCEPT !.at = "pending", !.user = u, !.name = k, !.args = <<s>>])
  /\ UNCHANGED <<clip, job, claim>>

\* Mutant: the former claim stays.
SubmitBesides(p) ==
  LET u == req[p].user  k == req[p].name  s == req[p].args[1] IN
  /\ At(p, "pending")
  /\ claim' = claim \cup {[shot |-> s, user |-> u, kind |-> k, st |-> "pending"]}
  /\ Done(p) /\ UNCHANGED <<load, made, clip, job, disk>>

\* SubmitStatClaim, one transaction: the former claim of that kind, if it is still to be
\* decided, goes, the new one comes.  What another adds meanwhile it does not see.
SubmitStatClaim(p) ==
  LET u == req[p].user  k == req[p].name  s == req[p].args[1] IN
  \/ /\ At(p, "pending")
     /\ req' = [req EXCEPT ![p].at = "submit",
                  ![p].args = <<s, {c.shot : c \in {d \in Claims(u) : d.kind = k /\ d.st = "pending"}}>>]
     /\ UNCHANGED <<load, made, clip, job, claim, disk>>
  \/ LET old == {c \in claim : c.shot \in req[p].args[2] /\ c.st = "pending"} IN
     /\ At(p, "submit") /\ Free({u})
     /\ IF u \in Here
        THEN /\ claim' = (claim \ old) \cup {[shot |-> s, user |-> u, kind |-> k, st |-> "pending"]}
             /\ \E f \in {c.shot : c \in old} \cup (IF old = {} THEN {s} ELSE {}) :
                  req' = [req EXCEPT ![p].at = "reload", ![p].args = <<s, f>>]
        ELSE claim' = claim /\ req' = [req EXCEPT ![p].at = "remove", ![p].args = <<s>>]
     /\ UNCHANGED <<load, made, clip, job, disk>>

\* The claim is read for the answer, and the screenshot of the old one goes; if the client
\* has left meanwhile, that is an error, and it is his own screenshot that goes.
Reload(p) ==
  LET s == req[p].args[1]  old == req[p].args[2] IN
  /\ At(p, "reload")
  /\ \/ IF old = s THEN Done(p) ELSE req' = [req EXCEPT ![p].at = "remove", ![p].args = <<old>>]
     \/ Kind("leave") /\ req' = [req EXCEPT ![p].at = "remove", ![p].args = <<s>>]
  /\ UNCHANGED <<load, made, clip, job, claim, disk>>

\* A moderator does not decide about himself.
HandleDecideStatClaim(p, by, c, st) ==
  /\ Signed(by) /\ account[by].role >= Moderator
  /\ c.user = by => account[by].role = Superadmin
  /\ Arrive(p, "decide", [Blank EXCEPT !.at = "decide", !.name = st, !.args = <<c.shot>>])
  /\ UNCHANGED mediaVars

DecideStatClaim(p) ==
  /\ At(p, "decide")
  /\ claim' = {IF c.shot = req[p].args[1] THEN [c EXCEPT !.st = req[p].name] ELSE c : c \in claim}
  /\ Done(p) /\ UNCHANGED <<load, made, clip, job, disk>>

-------------------------------------------------------------------------------
(* What deletion of an account and a start of the server do.               *)

HasMedia(u) == Claims(u) # {} \/ \E c \in Shown : clip[c].user = u
CascadeMedia(u) ==
  /\ clip' = [c \in Clip |-> IF clip[c].user = u THEN [NoRow EXCEPT !.st = "gone"] ELSE clip[c]]
  /\ claim' = claim \ Claims(u)
  /\ UNCHANGED <<job, disk>>

\* Downloads and uploads are lost; LightenExisting takes the files there are.
LightenExisting ==
  /\ job' = [c \in Clip |-> IF c \in disk THEN "heavy" ELSE "none"]
  /\ UNCHANGED <<clip, claim, disk>>

MediaInit ==
  /\ clip = [c \in Clip |-> NoRow] /\ job = [c \in Clip |-> "none"]
  /\ claim = {} /\ disk = {}

\* What goes on without requests.
JobStep(c) == DownloadClip(c) \/ SaveUpload(c) \/ SetHighlightFailed(c) \/ SetHighlightProcessed(c) \/ Lighten(c) \/ Replace(c)

MediaStep ==
  \/ \E p \in Request \ Idle : RemoveFile(p) \/ SubmitStatClaim(p) \/ Reload(p) \/ DecideStatClaim(p)
  \/ \E p \in Server :
       \/ \E u \in Here :
            \/ \E c \in Clip : HandleCreateHighlight(p, u, c) \/ CreateHighlightUpload(p, u, c)
            \/ Kind("claimed") /\ \E k \in StatKind, s \in Shot : HandleSubmitStatClaim(p, u, k, s)
            \/ \E c \in claim, st \in {"approved", "rejected"} : HandleDecideStatClaim(p, u, c, st)
       \/ \E c \in Shown :
            \/ \E st \in {"approved", "rejected"} : HandleModerateHighlight(p, c, st)
            \/ HandleDeleteHighlight(p, c)

-------------------------------------------------------------------------------
(* Properties.                                                             *)

\* What is listed is on disk: a clip with a file from its first showing on, although it is
\* recoded, moderated and deleted at the same time, and every screenshot there is to check,
\* if clients wait for the answer.
FilesAreThere ==
  /\ \A c \in Shown : clip[c].path => c \in disk
  /\ ~Kind("leave") => \A c \in claim : c.shot \in disk

\* One request at a time, the moderator has one number of a kind to check ("Прежняя
\* непроверенная заявка того же вида заменяется").
OnePending ==
  Alone => \A c, d \in claim :
    c.user = d.user /\ c.kind = d.kind /\ c.st = "pending" /\ d.st = "pending" => c = d

\* If the server is not restarted and clients stay, no clip is being processed for ever.
ClipsEnd ==
  ~Kind("boot") /\ ~Kind("leave") => <>[](\A c \in Clip : Working(c, "none") /\ clip[c].st # "processing")
===============================================================================
