------------------------------- MODULE Upload -------------------------------
(***************************************************************************)
(* Uploads to the web host: an HTTP request with several files, each of    *)
(* them written to a temporary file and moved to the desktop under a name  *)
(* that is free there (web/transport/upload.go, core/desktop/storage.go),  *)
(* while other requests bring files of the same name, the desktop's user   *)
(* puts and takes files, and authority is revoked.                         *)
(*                                                                         *)
(* All files have the same name here; a place is one of the candidates     *)
(* "name", "name (1)", ... that commitUpload tries.  A request that is     *)
(* refused leaves nothing behind.  A request that is over may come again.  *)
(***************************************************************************)
EXTENDS Naturals, FiniteSets

CONSTANTS Request,
          MaxUploads,  \* cap(uploadSlots), 4 in the code
          MaxParts,    \* files of a request, 100 in the code
          MaxChunks,   \* bounds what is read of a file
          MaxTries     \* names that are tried, 10000 in the code

ASSUME UploadAssumption ==
  /\ MaxUploads \in Nat /\ MaxParts \in Nat
  /\ MaxChunks \in Nat /\ MaxTries \in Nat \ {0}

VARIABLES
  valid,    \* requests whose token is valid and of RoleStandard at least
  gone,     \* requests whose context is done
  stage,    \* how far handleUpload has come with a request
  part,     \* its files that are done
  rest,     \* chunks of the present file that are not read
  temp,     \* its temporary file: "none", "part" or "whole"
  tried,    \* candidates that commitUpload found taken
  place,    \* what lies on the desktop
  results,  \* the places a request has moved files to, and no one took them from
  cut       \* a ghost: requests whose token ended before the file was checked

partVars == <<part, rest, temp, tried>>
desktopVars == <<place, results>>
uploadVars == <<valid, gone, stage, partVars, desktopVars, cut>>

Place == 0..(MaxTries - 1)

Free == [by |-> "nobody"]
Other == [by |-> "other"]
Uploaded(r) == [by |-> r, whole |-> temp[r] = "whole", allowed |-> r \notin cut]

UploadTypeOK ==
  /\ valid \in SUBSET Request /\ gone \in SUBSET Request /\ cut \in SUBSET Request
  /\ stage \in [Request -> {"none", "parts", "copy", "copied", "move"}]
  /\ part \in [Request -> 0..MaxParts] /\ rest \in [Request -> 0..MaxChunks]
  /\ temp \in [Request -> {"none", "part", "whole"}]
  /\ tried \in [Request -> 0..MaxTries]
  /\ place \in [Place -> {Free, Other} \cup [by : Request, whole : BOOLEAN, allowed : BOOLEAN]]
  /\ results \in [Request -> SUBSET Place]

UploadInit ==
  /\ valid = {} /\ gone = {} /\ cut = {}
  /\ stage = [r \in Request |-> "none"]
  /\ part = [r \in Request |-> 0] /\ rest = [r \in Request |-> 0]
  /\ temp = [r \in Request |-> "none"] /\ tried = [r \in Request |-> 0]
  /\ place = [p \in Place |-> Free] /\ results = [r \in Request |-> {}]

-----------------------------------------------------------------------------
\* handleUpload and receiveUpload

\* A slot is held until the handler returns.
Uploading == {r \in Request : stage[r] # "none"}

\* The token is valid and a slot is free.
EnterUpload(r) ==
  /\ stage[r] = "none" /\ r \in valid /\ Cardinality(Uploading) < MaxUploads
  /\ stage' = [stage EXCEPT ![r] = "parts"]
  /\ part' = [part EXCEPT ![r] = 0]
  /\ gone' = gone \ {r} /\ cut' = cut \ {r}
  /\ place' = [p \in Place |-> IF place[p].by = r THEN Other ELSE place[p]]
  /\ results' = [results EXCEPT ![r] = {}]
  /\ UNCHANGED <<valid, rest, temp, tried>>

\* The next file, for which CreateTemp succeeds
BeginPart(r) ==
  /\ stage[r] = "parts" /\ part[r] < MaxParts
  /\ stage' = [stage EXCEPT ![r] = "copy"]
  /\ temp' = [temp EXCEPT ![r] = "part"]
  /\ \E n \in 0..MaxChunks : rest' = [rest EXCEPT ![r] = n]
  /\ UNCHANGED <<valid, gone, part, tried, desktopVars, cut>>

\* The handler returns, and what is left of the file goes: after an error no
\* further file is looked at.  Before that part.Close reads what is left of a
\* refused part, whether the token is still valid or not; the limit of the body
\* and the deadline of a read end that as they end a copy, and nothing else
\* changes meanwhile, so that it is one step with the return.
Return(r) ==
  /\ stage' = [stage EXCEPT ![r] = "none"]
  /\ temp' = [temp EXCEPT ![r] = "none"]
  /\ rest' = [rest EXCEPT ![r] = 0] /\ tried' = [tried EXCEPT ![r] = 0]
  /\ UNCHANGED <<valid, gone, part, desktopVars, cut>>

\* Mutant: reading the body has no deadline
BodyEnds_NoDeadline(r) ==
  /\ stage[r] \in {"parts", "copy"} /\ (r \in gone \/ r \notin valid)
  /\ Return(r)

\* The body is at its end, or in error: it breaks off, has more files or bytes
\* than it may, or nothing comes of it for 30 s.  A read without authority is
\* an error too, and so is a name that is refused or no temporary file.
BodyEnds(r) ==
  /\ stage[r] \in {"parts", "copy"}
  /\ Return(r)

\* sessionReader.Read looks at the context and at the token each time.
MayRead(r) == stage[r] = "copy" /\ r \notin gone /\ r \in valid

ReadChunk(r) ==
  /\ MayRead(r) /\ rest[r] > 0
  /\ rest' = [rest EXCEPT ![r] = @ - 1]
  /\ UNCHANGED <<valid, gone, stage, part, temp, tried, desktopVars, cut>>

\* The end of the file; Sync and Close.
ReadEnd(r) ==
  /\ MayRead(r) /\ rest[r] = 0
  /\ stage' = [stage EXCEPT ![r] = "copied"]
  /\ temp' = [temp EXCEPT ![r] = "whole"]
  /\ UNCHANGED <<valid, gone, part, rest, tried, desktopVars, cut>>

\* The file may be moved: the request and its token are looked at once more.
CheckUpload(r) ==
  /\ stage[r] = "copied" /\ r \notin gone /\ r \in valid
  /\ stage' = [stage EXCEPT ![r] = "move"]
  /\ UNCHANGED <<valid, gone, partVars, desktopVars, cut>>

\* Sync or Close fails, or that look does; or the move, by its name, by an
\* error of the system or because every candidate is taken.
UploadFails(r) ==
  /\ stage[r] \in {"copied", "move"}
  /\ Return(r)

-----------------------------------------------------------------------------
\* commitUpload: one MoveFileW for each candidate

\* Mutant: the move replaces what is there, as a rename would
MoveUpload_Replace(r) ==
  /\ stage[r] = "move" /\ tried[r] \in Place
  /\ place' = [place EXCEPT ![tried[r]] = Uploaded(r)]
  /\ results' = [results EXCEPT ![r] = @ \cup {tried[r]}]
  /\ stage' = [stage EXCEPT ![r] = "parts"]
  /\ part' = [part EXCEPT ![r] = @ + 1]
  /\ temp' = [temp EXCEPT ![r] = "none"] /\ tried' = [tried EXCEPT ![r] = 0]
  /\ UNCHANGED <<valid, gone, rest, cut>>

\* The candidate is free: the temporary file is there now.
MoveUpload(r) ==
  /\ stage[r] = "move" /\ tried[r] \in Place /\ place[tried[r]] = Free
  /\ place' = [place EXCEPT ![tried[r]] = Uploaded(r)]
  /\ results' = [results EXCEPT ![r] = @ \cup {tried[r]}]
  /\ stage' = [stage EXCEPT ![r] = "parts"]
  /\ part' = [part EXCEPT ![r] = @ + 1]
  /\ temp' = [temp EXCEPT ![r] = "none"] /\ tried' = [tried EXCEPT ![r] = 0]
  /\ UNCHANGED <<valid, gone, rest, cut>>

\* It exists already: the next one.
NameTaken(r) ==
  /\ stage[r] = "move" /\ tried[r] \in Place /\ place[tried[r]] # Free
  /\ tried' = [tried EXCEPT ![r] = @ + 1]
  /\ UNCHANGED <<valid, gone, stage, part, rest, temp, desktopVars, cut>>

-----------------------------------------------------------------------------
\* Around the handlers

\* A token that was revoked never gets valid again: another request has another.
LoginUpload(r) ==
  /\ stage[r] = "none"
  /\ valid' = valid \cup {r}
  /\ UNCHANGED <<gone, stage, partVars, desktopVars, cut>>

RevokeUpload(r) ==
  /\ r \in valid
  /\ valid' = valid \ {r}
  /\ cut' = IF stage[r] = "move" THEN cut ELSE cut \cup {r}
  /\ UNCHANGED <<gone, stage, partVars, desktopVars>>

Disconnect(r) ==
  /\ stage[r] # "none" /\ r \notin gone
  /\ gone' = gone \cup {r}
  /\ UNCHANGED <<valid, stage, partVars, desktopVars, cut>>

\* The user of the desktop
UserPuts(p) ==
  /\ place[p] = Free
  /\ place' = [place EXCEPT ![p] = Other]
  /\ UNCHANGED <<valid, gone, stage, partVars, results, cut>>

UserTakes(p) ==
  /\ place[p] # Free
  /\ place' = [place EXCEPT ![p] = Free]
  /\ results' = [r \in Request |-> results[r] \ {p}]
  /\ UNCHANGED <<valid, gone, stage, partVars, cut>>

-----------------------------------------------------------------------------
\* The steps nobody outside has to take
HandleUpload(r) ==
  BodyEnds(r) \/ CheckUpload(r) \/ UploadFails(r) \/ MoveUpload(r) \/ NameTaken(r)

UploadNext ==
  \/ \E r \in Request :
       \/ EnterUpload(r) \/ BeginPart(r) \/ ReadChunk(r) \/ ReadEnd(r) \/ HandleUpload(r)
       \/ LoginUpload(r) \/ RevokeUpload(r) \/ Disconnect(r)
  \/ \E p \in Place : UserPuts(p) \/ UserTakes(p)

UploadSpec == UploadInit /\ [][UploadNext]_uploadVars

\* Handlers run and the deadline of the body passes; the far end owes nothing.
UploadFairness == \A r \in Request : WF_uploadVars(HandleUpload(r))

-----------------------------------------------------------------------------
\* Properties

\* What a request has moved to the desktop is whole, came under a token that was
\* valid after its last byte, and lies where the answer says until the user
\* takes it, whatever other uploads of the same name come and go.
UploadedStays ==
  \A r \in Request : \A p \in results[r] :
    place[p] = [by |-> r, whole |-> TRUE, allowed |-> TRUE]

\* A request comes to its end and gives its slot back, although its far end may
\* fall silent anywhere in the body.
UploadEnds == \A r \in Request : []<>(stage[r] = "none")

=============================================================================
