--------------------------- MODULE MsgCopyServiceMC ---------------------------
(***************************************************************************)
(* Instances of MsgCopyService for TLC.  There are two source folders, two *)
(* destination folders and the root of their server; the runs on folder    *)
(* copies add a folder to copy and the folders its copies may become.      *)
(***************************************************************************)
EXTENDS MsgCopyService

CONSTANTS root, a, b, t, u,        \* a and b are copied from, t and u copied to
          inA, inA2, inT,          \* children of t that folder copies create
          file, file2

Plain == {root, a, b, t, u}
WithChildren == Plain \cup {inA, inA2, inT}

ParentOf == [f \in WithChildren |->
  CASE f = root -> NoFolder
    [] f \in {inA, inA2, inT} -> t
    [] OTHER -> root]
NameOf == [f \in WithChildren |-> IF f = inA THEN a ELSE IF f = inT THEN b ELSE f]

PlainParent == [f \in Plain |-> ParentOf[f]]
PlainName == [f \in Plain |-> NameOf[f]]

Messages(from, src, dst, move) ==
  [method |-> "messages", src |-> src, dst |-> dst, from |-> from, move |-> move]
OneSource(src, dst, move) == Messages(<<src>>, src, dst, move)
PlainFile(f, dst) ==
  [method |-> "files", src |-> f, dst |-> dst, from |-> <<>>, move |-> FALSE]
ReplacingFile(f, dst) == [PlainFile(f, dst) EXCEPT !.from = <<NoFolder>>]
CopyOfFolder(src, dst, move) ==
  [method |-> "folders", src |-> src, dst |-> dst, from |-> <<src>>, move |-> move]

(***************************************************************************)
(* Messages of one folder each, an empty selection, and a file that no     *)
(* script copies to the same folder twice.                                 *)
(***************************************************************************)
SingleSourceCalls ==
  { OneSource(a, t, FALSE), OneSource(a, t, TRUE), OneSource(b, t, FALSE),
    OneSource(a, u, TRUE), PlainFile(file, t), Messages(<<>>, a, t, FALSE) }

FilesOnce(scripts) ==
  {s \in scripts : \A i, j \in Id :
     i # j /\ s[i].method = "files" => s[i].src # s[j].src}

SingleSource == FilesOnce([Id -> SingleSourceCalls])

(***************************************************************************)
(* No two requests have the same source and destination.                   *)
(***************************************************************************)
NoTwins(scripts) ==
  {s \in scripts : \A i, j \in Id :
     i # j => s[i].src # s[j].src \/ s[i].dst # s[j].dst}

DistinctSources ==
  NoTwins([Id -> {OneSource(a, t, FALSE), OneSource(b, t, TRUE),
                  OneSource(a, u, FALSE), ReplacingFile(file2, u)}])

(***************************************************************************)
(* Folder copies and moves, and copies of the messages of their source.    *)
(***************************************************************************)
FolderScripts ==
  [Id -> {CopyOfFolder(a, t, FALSE), CopyOfFolder(a, t, TRUE), CopyOfFolder(b, t, TRUE),
          OneSource(a, u, FALSE), OneSource(b, t, FALSE), ReplacingFile(file2, u)}]

(***************************************************************************)
(* A search view whose messages are in two folders, and another copy.      *)
(***************************************************************************)
SearchViewScript == {<<Messages(<<a, b>>, a, t, FALSE), OneSource(a, u, FALSE)>>}
=============================================================================
