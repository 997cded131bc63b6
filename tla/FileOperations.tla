--------------------------- MODULE FileOperations ---------------------------
(***************************************************************************)
(* File_System_Manager and the folders that a Folder_System_Manager        *)
(* registers: operations of several calls of the file system, each of      *)
(* which may fail.                                                         *)
(*                                                                         *)
(* One client works on the files at a time, which are on one volume.  Each *)
(* path has a folder of its own.  A copy may end torn when the disk is     *)
(* full.                                                                   *)
(***************************************************************************)
EXTENDS Integers

CONSTANTS
    Paths,
    Contents,
    Names    \* of registered folders; a folder is named by the path it holds

VARIABLES
    files,      \* what is in each file
    folders,    \* the paths whose folder exists
    m_folders,  \* the folder registered under each name
    operation,  \* the one at hand: what, from where, to where, how far
    result,     \* of the last operation
    source      \* history: what was in operation.from when the operation began

fileVars == <<files, folders, m_folders, operation, result, source>>

NoFile == "none"
Torn == "torn"
NoOperation == [what |-> NoFile, from |-> NoFile, to |-> NoFile, overwrite |-> FALSE, step |-> NoFile]

FileInit ==
    /\ files = [p \in Paths |-> NoFile]
    /\ folders = {}
    /\ m_folders = [n \in Names |-> NoFile]
    /\ operation = NoOperation
    /\ result = "success"
    /\ source = NoFile

-----------------------------------------------------------------------------
(* The file system.                                                        *)

ContinueWith(step) == operation' = [operation EXCEPT !.step = step] /\ UNCHANGED <<result, source>>

FinishWith(outcome) == operation' = NoOperation /\ result' = outcome /\ source' = NoFile

\* Mutant: a move that copies and then removes, whatever came of the copy.
CopyAndRemove(from, to) ==
    \E copy \in {files[from], NoFile} :
        /\ files' = [files EXCEPT ![from] = NoFile, ![to] = copy]
        /\ FinishWith(IF copy = NoFile THEN "failure" ELSE "success")

\* The rename of a file replaces the one at its destination, or changes nothing.  A file
\* may be renamed to the name that it has.
Rename(from, to) ==
    \/ /\ files[from] # NoFile /\ to \in folders
       /\ files' = [files EXCEPT ![from] = NoFile, ![to] = files[from]]
       /\ FinishWith("success")
    \/ UNCHANGED files /\ FinishWith("failure")

\* Without overwrite an existing destination is an error, and so is a copy of a file to
\* itself.
CopyFile(from, to, overwrite) ==
    \/ /\ files[from] # NoFile /\ to \in folders /\ from # to
       /\ files[to] = NoFile \/ overwrite
       /\ \/ files' = [files EXCEPT ![to] = files[from]] /\ FinishWith("success")
          \/ files' = [files EXCEPT ![to] = Torn] /\ FinishWith("failure")
    \/ UNCHANGED files /\ FinishWith("failure")

\* A stream opened with trunc or app, and written; a failure to flush it when it is
\* closed is not seen.
WriteStream(to, content) ==
    \/ /\ to \in folders
       /\ \/ files' = [files EXCEPT ![to] = content] /\ FinishWith("success")
          \/ files' = [files EXCEPT ![to] = Torn] /\ \E r \in {"success", "failure"} : FinishWith(r)
    \/ UNCHANGED files /\ FinishWith("failure")

-----------------------------------------------------------------------------
(* File_System_Manager.                                                    *)

StartOperation(what, from, to, overwrite) ==
    /\ operation.what = NoFile
    /\ operation' = [what |-> what, from |-> from, to |-> to, overwrite |-> overwrite, step |-> "parent"]
    /\ source' = IF from = NoFile THEN NoFile ELSE files[from]
    /\ UNCHANGED <<files, folders, m_folders, result>>

\* EnsureParent; a write may be told to leave it out.
EnsureParent ==
    /\ operation.step = "parent"
    /\ \/ folders' = folders \union {operation.to} /\ ContinueWith("first")
       \/ UNCHANGED folders /\ FinishWith("failure")
       \/ operation.what \in {"write", "append"} /\ UNCHANGED folders /\ ContinueWith("first")
    /\ UNCHANGED <<files, m_folders>>

\* What is at the destination goes first; whether it exists may be unknown.
MoveRemove ==
    /\ operation.what = "move" /\ operation.step = "first"
    /\ \/ /\ operation.overwrite /\ files[operation.to] # NoFile
          /\ \/ files' = [files EXCEPT ![operation.to] = NoFile] /\ ContinueWith("rename")
             \/ UNCHANGED files /\ FinishWith("failure")
       \/ UNCHANGED files /\ ContinueWith("rename")
    /\ UNCHANGED <<folders, m_folders>>

MoveRename ==
    /\ operation.what = "move" /\ operation.step = "rename"
    /\ Rename(operation.from, operation.to)
    /\ UNCHANGED <<folders, m_folders>>

Copy ==
    /\ operation.what = "copy" /\ operation.step = "first"
    /\ CopyFile(operation.from, operation.to, operation.overwrite)
    /\ UNCHANGED <<folders, m_folders>>

\* WriteText and WriteBinary.
Write ==
    /\ operation.what = "write" /\ operation.step = "first"
    /\ \E c \in Contents : WriteStream(operation.to, c)
    /\ UNCHANGED <<folders, m_folders>>

\* Appended text makes a file of what was none, and another content of what was one.
AppendText ==
    /\ operation.what = "append" /\ operation.step = "first"
    /\ \E c \in Contents : WriteStream(operation.to, IF files[operation.to] = Torn THEN Torn ELSE c)
    /\ UNCHANGED <<folders, m_folders>>

RemoveFile(path) ==
    /\ operation.what = NoFile
    /\ \/ files' = [files EXCEPT ![path] = NoFile] /\ result' = "success"
       \/ UNCHANGED files /\ result' = "failure"
    /\ UNCHANGED <<folders, m_folders, operation, source>>

-----------------------------------------------------------------------------
(* Directory_Manager and Folder_System_Manager.                            *)

\* Directory_Manager::Create makes the folder or fails.
CreateFolder(path) ==
    \/ folders' = folders \union {path} /\ result' = "success"
    \/ UNCHANGED folders /\ result' = "failure"

\* Directory_Manager::Ensure: is_directory reports an error for what does not exist, so
\* that a missing folder is never made.
EnsureFolder(path) ==
    /\ UNCHANGED folders
    /\ \/ path \in folders /\ result' = "success"
       \/ result' = "failure"

Create(path) ==
    /\ operation.what = NoFile
    /\ CreateFolder(path)
    /\ UNCHANGED <<files, m_folders, operation, source>>

\* The name is registered before the folder is known to exist.
RegisterFolder(name, path, create) ==
    /\ operation.what = NoFile
    /\ m_folders' = [m_folders EXCEPT ![name] = path]
    /\ IF create THEN EnsureFolder(path) ELSE result' = "success" /\ UNCHANGED folders
    /\ UNCHANGED <<files, operation, source>>

\* The first folder that cannot be ensured ends it.
EnsureRegisteredFolders ==
    /\ operation.what = NoFile
    /\ UNCHANGED folders
    /\ \/ {m_folders[n] : n \in Names} \subseteq folders \union {NoFile} /\ result' = "success"
       \/ result' = "failure"
    /\ UNCHANGED <<files, m_folders, operation, source>>

FileNext ==
    \/ \E from, to \in Paths, overwrite \in BOOLEAN :
            StartOperation("move", from, to, overwrite) \/ StartOperation("copy", from, to, overwrite)
    \/ \E to \in Paths : StartOperation("write", NoFile, to, TRUE) \/ StartOperation("append", NoFile, to, TRUE)
    \/ EnsureParent \/ MoveRemove \/ MoveRename \/ Copy \/ Write \/ AppendText
    \/ \E path \in Paths : RemoveFile(path) \/ Create(path)
    \/ \E name \in Names, path \in Paths, create \in BOOLEAN : RegisterFolder(name, path, create)
    \/ EnsureRegisteredFolders

FileSpec == FileInit /\ [][FileNext]_fileVars

-----------------------------------------------------------------------------
\* An overwriting Move of a file to its own path removes the file before it renames it.
SelfMove ==
    operation.what = "move" /\ operation.overwrite /\ operation.from = operation.to

\* Whatever call of a Move or a Copy fails, and wherever the process dies in one, what it
\* works on is whole in the file it came from until the call reports success, and then in
\* the one it went to: a caller that was told of a failure can try again.  There is one
\* exception, the SelfMove, which loses the file.  What was at the destination has no such
\* promise: an overwriting Move removes it before the rename that may fail.
MoveKeepsContent ==
    [][source # NoFile /\ ~SelfMove =>
          IF operation' = NoOperation /\ result' = "success"
          THEN files'[operation.to] = source
          ELSE files'[operation.from] = source]_fileVars
=============================================================================
