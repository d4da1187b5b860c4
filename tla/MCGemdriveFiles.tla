---- MODULE MCGemdriveFiles ----
(***************************************************************************)
(* Fseek and Fread, and the path calls of GEMDRIVE.  As in MCNetSide the   *)
(* models share no variable, and a behaviour chooses the part that moves.  *)
(* The path calls are three parts: those that make and remove folders and  *)
(* those that rename meet the current directory, and the read-only         *)
(* attribute the calls that it makes fail or that carry it along.          *)
(***************************************************************************)
EXTENDS MCGemdriveRead, GemdriveCalls

CONSTANTS na, nb

\* two names in the root, and one level below the first
MCNodes    == {<<>>, <<na>>, <<nb>>, <<na, na>>}
MCAbsPaths == {<<>>, <<nb>>}
MCRelPaths == {<<na>>}

\* what a program of each part calls; "none" once it is back
FolderOps == {"Dsetpath", "Dgetpath", "Dcreate", "Ddelete", "none"}
RenameOps == {"Dsetpath", "Dgetpath", "Frename", "none"}
AttribOps == {"Dfree", "Fattrib", "Fdelete", "Frename", "none"}

VARIABLE part

filesVars == <<part, allVars, callsVars>>

\* a part that keeps still has one initial state; folders meet one file at most
FilesInit ==
    /\ part \in {"read", "folders", "renames", "attribs"}
    /\ RInit /\ CallsInit
    /\ part # "read" => start = 0 /\ wanted = 1
    /\ part = "read" => \A n \in MCNodes \ {<<>>} : tree[n] = "none"
    /\ part = "folders" => tree[<<nb>>] # "file"

FilesNext ==
    /\ \/ part = "read" /\ RNext /\ UNCHANGED callsVars
       \/ part = "folders" /\ CallsNext /\ trap'.request.op \in FolderOps /\ UNCHANGED allVars
       \/ part = "renames" /\ CallsNext /\ trap'.request.op \in RenameOps /\ UNCHANGED allVars
       \/ part = "attribs" /\ CallsNext /\ trap'.request.op \in AttribOps /\ UNCHANGED allVars
    /\ UNCHANGED part

FilesSpec == FilesInit /\ [][FilesNext]_filesVars

\* The part that moves keeps to its types: Fseek and Fread (gemdrive.s and
\* handleReadBuffCall), or the calls on paths (handleDsetpathCall and so on).
FilesTypeOK == IF part = "read" THEN RTypeOK ELSE CallsTypeOK
====
