-------------------------------- MODULE MCWall --------------------------------
(* Values for model-checking the wall. *)
EXTENDS Wall

\* A folder, a file in it, a detour to that file, a climb from the folder into the
\* trash bin and one out of the root.
Folder == <<"a">>
File == <<"a", "b">>
Trashbin == <<"trashbin">>
Detour == <<"c", "..", "a", ".", "b">>
Climb == <<"a", "b", "..", "..", "trashbin", "c">>
Escape == <<"a", "..", "..", "a">>

MCPaths == {<<>>, Folder, File, Detour, Climb, Escape}
MCTrash == {Trashbin, <<"files_trashbin">>}

ReadFolder == [path |-> Folder, mode |-> "read"]
WriteFile == [path |-> File, mode |-> "write"]
ReadRoot == [path |-> <<>>, mode |-> "read"]
WriteTrash == [path |-> Trashbin, mode |-> "write"]

MCItems == {ReadFolder, WriteFile, ReadRoot, WriteTrash}

\* Two items of different modes, so that their pairing matters; and a grant on
\* what is never grantable.
MCBatches == {<<ReadFolder, WriteFile>>, <<WriteFile, WriteTrash, ReadRoot>>}
MCSelections == {<<1>>}
=============================================================================
