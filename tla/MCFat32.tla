------------------------------ MODULE MCFat32 -------------------------------
(***************************************************************************)
(* Small volumes: one reserved sector, one FAT of four sectors (clusters 2 *)
(* to 7), root directory at cluster 2.  One is sound; the others are not   *)
(* FAT32, are damaged, or hold files at the limit of the guards.           *)
(***************************************************************************)
EXTENDS Fat32

MCBpb(spc) ==
  [signature |-> TRUE, root_entry_count |-> 0, fat_size_16 |-> 0, bytes_per_sector |-> 2,
   sectors_per_cluster |-> spc, reserved_sectors |-> 1, num_fats |-> 1, fat_size_32 |-> 4,
   root_cluster |-> 2]

\* fat: the entries of clusters 0 to 7; data: the sectors of the data region.
MCDisk(bpb, fat, data) ==
  [lba \in 0..4 + Len(data) |->
     IF lba = 0 THEN bpb
     ELSE IF lba <= 4 THEN <<fat[2 * lba - 1], fat[2 * lba]>> ELSE data[lba - 4]]

Entry(kind, n, start, size) == [kind |-> kind, name |-> n, start |-> start, size |-> size]
A == <<"a", " ", "x">>     \* A.X
B == <<"b", "b", " ">>     \* BB
C == <<"c", " ", " ">>     \* C
End == Entry("end", C, 0, 0)

\* A directory of two clusters with deleted, long-name and label entries; a
\* file in clusters 4 and 6, an empty one, and one whose chain is too short.
Dir1 == <<Entry("volume", C, 0, 0), Entry("deleted", A, 5, 1)>>
Dir2 == <<Entry("lfn", B, 0, 0), Entry("file", A, 4, 3)>>
Dir3 == <<Entry("file", B, 5, 4), Entry("file", C, 0, 0)>>
Sound1 == <<14, 15, 3, 30, 6, 15, 15, 0>>   \* cluster 3's mark has reserved bits set
Data1 == <<Dir2, Dir3, <<1, 2>>, <<3, 4>>, <<5, 6>>, <<7, 8>>>>

MCDisks ==
  { MCDisk(MCBpb(1), Sound1, Data1),
    \* two sectors per cluster
    MCDisk(MCBpb(2), <<14, 15, 3, 15, 6, 15, 15, 0>>,
           <<Dir1, Dir2, Dir3, <<End, Entry("file", A, 6, 1)>>, <<1, 2>>, <<3, 4>>,
             <<5, 6>>, <<7, 8>>, <<9, 1>>, <<2, 3>>, <<4, 5>>, <<6, 7>>>>),
    \* a directory in a circle, a file into a bad cluster, a file in a circle
    MCDisk(MCBpb(1), <<14, 15, 3, 2, 13, 5, 15, 0>>, Data1),
    \* a file of three and of four clusters
    MCDisk(MCBpb(1), <<14, 15, 15, 4, 5, 6, 15, 0>>,
           <<<<Entry("file", A, 4, 6), Entry("file", B, 3, 7), Entry("file", C, 4, 31)>>, <<1, 2>>, <<3, 4>>, <<5, 6>>, <<7, 8>>, <<9, 0>>>>),
    \* not a FAT32 volume
    MCDisk([MCBpb(1) EXCEPT !.fat_size_16 = 4], Sound1, Data1) }

MCNames == {<<"b", "b">>, <<"c">>, <<"d">>}
MCHello == <<"a", ".", "x">>
=============================================================================
