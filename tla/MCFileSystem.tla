----------------------------- MODULE MCFileSystem -----------------------------
(* FileSystem with a text of two lines, the last without an end, and two    *)
(* mount points, one below the other, above the watched file.               *)
EXTENDS FileSystem

MCText == <<1, 0, 1, 1>>

MCPoints == {<<1>>, <<1, 1>>}

MCLeaf == <<1, 1, 1>>
=============================================================================
