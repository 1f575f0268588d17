-------------------------- MODULE ShardStoreProofs --------------------------
(* Proofs about ShardStore, for any number of threads, inodes, blocks and  *)
(* data values.                                                            *)
EXTENDS ShardStore, TLAPS

USE DataAssumption, SentinelAssumption, InodeAssumption

\* What write(2) leaves in a shard file is again a sequence of blocks and holes.
LEMMA OverwriteTyped ==
    ASSUME NEW s \in Seq(Block \cup {Hole}), NEW k \in Nat, NEW b \in Block
    PROVE  Overwrite(s, k, b) \in Seq(Block \cup {Hole})
<1> DEFINE n == IF Len(s) >= k THEN Len(s) ELSE k
<1>1. n \in Nat
  OBVIOUS
<1>2. \A j \in 1..n : (IF j = k THEN b ELSE IF j <= Len(s) THEN s[j] ELSE Hole)
                        \in Block \cup {Hole}
  OBVIOUS
<1> QED BY <1>1, <1>2 DEF Overwrite

\* An open that truncates keeps the files well typed and yields an inode.
LEMMA OpenTruncateTyped ==
    ASSUME TypeOK, NEW p \in Proc, NEW f \in File, OpenTruncate(p, f)
    PROVE  /\ dirent' \in [File -> Inode \cup {NoInode}]
           /\ DOMAIN content' = File
           /\ content'["shard"] \in [Inode -> Seq(Block \cup {Hole})]
           /\ content'["meta"] \in [Inode -> Seq(offered \cup {Junk})]
           /\ fd' \in [Proc -> Inode \cup {NoInode}]
           /\ fd'[p] \in Inode
           /\ \A q \in Proc \ {p} : fd'[q] = fd[q]
<1>0. <<>> \in Seq(Block \cup {Hole}) /\ <<>> \in Seq(offered \cup {Junk})
  OBVIOUS
<1>1. PICK i \in Inode :
        /\ dirent' = dirent \/ dirent' = [dirent EXCEPT ![f] = i]
        /\ content' = [content EXCEPT ![f][i] = <<>>]
        /\ fd' = [fd EXCEPT ![p] = i]
  <2>1. dirent[f] \in Inode \cup {NoInode}
    BY DEF TypeOK
  <2> QED BY <2>1 DEF OpenTruncate
<1>2. dirent' \in [File -> Inode \cup {NoInode}]
  BY <1>1 DEF TypeOK
<1>3. /\ fd' \in [Proc -> Inode \cup {NoInode}]
      /\ fd'[p] \in Inode
      /\ \A q \in Proc \ {p} : fd'[q] = fd[q]
  BY <1>1 DEF TypeOK
<1>4. CASE f = "shard"
  <2>1. DOMAIN content' = File /\ content'["meta"] = content["meta"]
    BY <1>1, <1>4 DEF TypeOK, File
  <2>2. content'["shard"] = [content["shard"] EXCEPT ![i] = <<>>]
    BY <1>1, <1>4 DEF TypeOK, File
  <2>3. content'["shard"] \in [Inode -> Seq(Block \cup {Hole})]
    BY <1>0, <2>2 DEF TypeOK
  <2> QED BY <1>2, <1>3, <2>1, <2>3 DEF TypeOK
<1>5. CASE f = "meta"
  <2>1. DOMAIN content' = File /\ content'["shard"] = content["shard"]
    BY <1>1, <1>5 DEF TypeOK, File
  <2>2. content'["meta"] = [content["meta"] EXCEPT ![i] = <<>>]
    BY <1>1, <1>5 DEF TypeOK, File
  <2>3. content'["meta"] \in [Inode -> Seq(offered \cup {Junk})]
    BY <1>0, <2>2 DEF TypeOK
  <2> QED BY <1>2, <1>3, <2>1, <2>3 DEF TypeOK
<1> QED BY <1>4, <1>5 DEF File

\* The parts of the type invariant about the disk.
FilesOK ==
    /\ dirent \in [File -> Inode \cup {NoInode}]
    /\ DOMAIN content = File
    /\ content["shard"] \in [Inode -> Seq(Block \cup {Hole})]
    /\ content["meta"] \in [Inode -> Seq(offered \cup {Junk})]

\* The outcomes and the states of the disk that the operations name.
LEMMA Named ==
    /\ NoResult \in Outcome /\ Err \in Outcome /\ Done \in Outcome
    /\ \A v \in Seq(Block \cup {Hole}) : Ok(v) \in Outcome
    /\ Unknown \in Disk /\ Deleted \in Disk
    /\ \A d \in Data : Holds(d) \in Disk
<1>1. <<>> \in Seq(Block \cup {Hole})
  OBVIOUS
<1> QED BY <1>1 DEF NoResult, Err, Done, Ok, Unknown, Deleted, Holds, Outcome, Disk

\* Returning from an operation resets the thread's own variables.
LEMMA FinishTyped ==
    ASSUME TypeOK, NEW p \in Proc, NEW outcome \in Outcome, Finish(p, outcome),
           FilesOK', UNCHANGED <<offered, solo>>,
           quiet' \in Disk, snap' \in [Proc -> Disk]
    PROVE  TypeOK'
<1>1. <<>> \in Seq(Block \cup {Hole})
  OBVIOUS
<1> QED BY <1>1 DEF Finish, TypeOK, FilesOK, PC, StorePC

LEMMA FilesUnchanged ==
    ASSUME TypeOK, UNCHANGED files, offered \subseteq offered'
    PROVE  FilesOK'
<1>1. \A s \in Seq(offered \cup {Junk}) : s \in Seq(offered' \cup {Junk})
  OBVIOUS
<1> QED BY <1>1 DEF TypeOK, FilesOK, files

LEMMA UnlinkTyped ==
    ASSUME TypeOK, NEW f \in File, Unlink(f), UNCHANGED <<content, offered>>
    PROVE  FilesOK'
BY DEF TypeOK, FilesOK, Unlink

\* The metadata document a store writes.
LEMMA MetaWritten ==
    ASSUME TypeOK, NEW p \in Proc, save_meta_write(p)
    PROVE  /\ FilesOK'
           /\ fd[p] \in Inode /\ data[p] \in offered
           /\ content'["shard"] = content["shard"]
           /\ \A i \in Inode : i # fd[p] => content'["meta"][i] = content["meta"][i]
           /\ \/ content'["meta"][fd[p]] = <<data[p]>>
              \/ /\ content'["meta"][fd[p]] = <<data[p], Junk>>
                 /\ content["meta"][fd[p]] # <<>>
<1>1. fd[p] \in Inode /\ data[p] \in offered
  BY DEF TypeOK, save_meta_write, StorePC
<1>2. PICK doc \in {<<data[p]>>, <<data[p], Junk>>} :
        /\ doc # <<data[p]>> => content["meta"][fd[p]] # <<>>
        /\ content' = [content EXCEPT !["meta"][fd[p]] = doc]
  BY DEF save_meta_write
<1>3. doc \in Seq(offered \cup {Junk})
  <2>1. data[p] \in offered \cup {Junk} /\ Junk \in offered \cup {Junk}
    BY <1>1
  <2>2. <<data[p]>> \in Seq(offered \cup {Junk})
    BY <2>1
  <2>3. <<data[p], Junk>> \in Seq(offered \cup {Junk})
    BY <2>1
  <2> QED BY <1>2, <2>2, <2>3, Zenon
<1>4. /\ DOMAIN content' = File
      /\ content'["shard"] = content["shard"]
      /\ content'["meta"] = [content["meta"] EXCEPT ![fd[p]] = doc]
  BY <1>2 DEF TypeOK, File
<1>5. offered' = offered /\ dirent' = dirent
  BY DEF save_meta_write, Settle
<1>6. content["meta"] \in [Inode -> Seq(offered \cup {Junk})]
  BY DEF TypeOK
<1>7. /\ content'["meta"] \in [Inode -> Seq(offered \cup {Junk})]
      /\ content'["meta"][fd[p]] = doc
      /\ \A i \in Inode : i # fd[p] => content'["meta"][i] = content["meta"][i]
  BY <1>1, <1>3, <1>4, <1>6
<1>8. FilesOK'
  BY <1>4, <1>5, <1>7 DEF TypeOK, FilesOK
<1> QED BY <1>1, <1>2, <1>4, <1>7, <1>8

\* A block of the shard written at the end of what was written before.
LEMMA BlockWritten ==
    ASSUME TypeOK, NEW p \in Proc, s_write(p)
    PROVE  /\ FilesOK'
           /\ fd[p] \in Inode /\ data[p] \in Seq(Block)
           /\ Len(buf[p]) + 1 \in 1..Len(data[p])
           /\ content'["meta"] = content["meta"]
           /\ content'["shard"] =
                [content["shard"] EXCEPT ![fd[p]] =
                    Overwrite(@, Len(buf[p]) + 1, data[p][Len(buf[p]) + 1])]
           /\ buf'[p] = Append(buf[p], data[p][Len(buf[p]) + 1])
           /\ buf' \in [Proc -> Seq(Block \cup {Hole})]
<1> DEFINE k == Len(buf[p]) + 1
           blk == data[p][k]
<1>1. fd[p] \in Inode /\ data[p] \in Seq(Block) /\ buf[p] \in Seq(Block \cup {Hole})
  BY DEF TypeOK, s_write, StorePC
<1>2. k \in 1..Len(data[p]) /\ blk \in Block
  BY <1>1 DEF s_write
<1>3. /\ content' = [content EXCEPT !["shard"][fd[p]] = Overwrite(@, k, blk)]
      /\ buf' = [buf EXCEPT ![p] = Append(@, blk)]
      /\ dirent' = dirent /\ offered' = offered
  BY DEF s_write, history
<1> HIDE DEF k, blk
<1>4. /\ DOMAIN content' = File
      /\ content'["meta"] = content["meta"]
      /\ content'["shard"] = [content["shard"] EXCEPT ![fd[p]] = Overwrite(@, k, blk)]
  BY <1>3 DEF TypeOK, File
<1>5. content["shard"][fd[p]] \in Seq(Block \cup {Hole})
  BY <1>1 DEF TypeOK
<1>6. Overwrite(content["shard"][fd[p]], k, blk) \in Seq(Block \cup {Hole})
  <2>1. k \in Nat
    BY <1>1 DEF k
  <2> QED BY <1>2, <1>5, <2>1, OverwriteTyped
<1>7. content'["shard"] \in [Inode -> Seq(Block \cup {Hole})]
  BY <1>4, <1>6 DEF TypeOK
<1>8. FilesOK'
  BY <1>3, <1>4, <1>7 DEF TypeOK, FilesOK
<1>9. Append(buf[p], blk) \in Seq(Block \cup {Hole})
  BY <1>1, <1>2
<1>10. buf' \in [Proc -> Seq(Block \cup {Hole})] /\ buf'[p] = Append(buf[p], blk)
  BY <1>3, <1>9 DEF TypeOK
<1> QED BY <1>1, <1>2, <1>4, <1>8, <1>10 DEF k, blk

-----------------------------------------------------------------------------
\* Every step keeps the state well typed.
LEMMA TypeStep == TypeOK /\ [StoreNext]_storeVars => TypeOK'
<1> SUFFICES ASSUME TypeOK, [StoreNext]_storeVars PROVE TypeOK'
  OBVIOUS
<1>1. ASSUME NEW p \in Proc, NEW d \in Data, store_shard(p, d) PROVE TypeOK'
  <2>1. FilesOK'
    BY <1>1, FilesUnchanged DEF store_shard, files
  <2>2. solo' \in [Proc -> BOOLEAN] /\ quiet' \in Disk /\ snap' \in [Proc -> Disk]
    BY <1>1, Named DEF store_shard, BeginWriting
  <2>3. result' \in [Proc -> Outcome]
    BY <1>1, Named DEF store_shard, TypeOK
  <2> QED BY <1>1, <2>1, <2>2, <2>3
       DEF store_shard, TypeOK, FilesOK, PC, StorePC, Writing
<1>2. ASSUME NEW p \in Proc, s_open(p) PROVE TypeOK'
  BY <1>2, OpenTruncateTyped DEF s_open, history, TypeOK, File, PC, StorePC, Writing
<1>3. ASSUME NEW p \in Proc, s_write(p) PROVE TypeOK'
  BY <1>3, BlockWritten DEF s_write, history, TypeOK, FilesOK
<1>4. ASSUME NEW p \in Proc, save_meta_open(p) PROVE TypeOK'
  BY <1>4, OpenTruncateTyped
     DEF save_meta_open, history, TypeOK, File, PC, StorePC, Writing
<1>5. ASSUME NEW p \in Proc, save_meta_write(p) PROVE TypeOK'
  <2>1. FilesOK' /\ data[p] \in Data
    BY <1>5, MetaWritten DEF TypeOK
  <2>2. quiet' \in Disk
    BY <1>5, <2>1, Named DEF save_meta_write, Settle, TypeOK
  <2> QED BY <1>5, <2>1, <2>2, Named, FinishTyped
       DEF save_meta_write, Settle, TypeOK
<1>6. ASSUME NEW p \in Proc, retrieve_shard(p) PROVE TypeOK'
  <2>1. result' \in [Proc -> Outcome] /\ snap' \in [Proc -> Disk]
    BY <1>6, Named DEF retrieve_shard, TypeOK
  <2> QED BY <1>6, <2>1
       DEF retrieve_shard, files, TypeOK, File, PC, StorePC, ReadPC
<1>7. ASSUME NEW p \in Proc, retrieve_missing(p) PROVE TypeOK'
  <2>1. snap' \in [Proc -> Disk]
    BY <1>7 DEF retrieve_missing, TypeOK
  <2> QED BY <1>7, <2>1, Named, FilesUnchanged, FinishTyped
       DEF retrieve_missing, TypeOK
<1>8. ASSUME NEW p \in Proc, r_read(p) PROVE TypeOK'
  <2> DEFINE s == content["shard"][fd[p]]
  <2>1. s \in Seq(Block \cup {Hole}) /\ buf[p] \in Seq(Block \cup {Hole})
    BY <1>8 DEF r_read, TypeOK
  <2>2. CASE Len(buf[p]) + 1 <= Len(s)
    <3>1. s[Len(buf[p]) + 1] \in Block \cup {Hole}
      BY <2>1, <2>2
    <3>2. Append(buf[p], s[Len(buf[p]) + 1]) \in Seq(Block \cup {Hole})
      BY <2>1, <3>1
    <3>3. buf' = [buf EXCEPT ![p] = Append(buf[p], s[Len(buf[p]) + 1])]
      BY <1>8, <2>1, <2>2 DEF r_read
    <3>4. UNCHANGED <<dirent, content, pc, data, fd, result, history>>
      BY <1>8, <2>1, <2>2 DEF r_read, files
    <3> HIDE DEF s
    <3>5. buf' \in [Proc -> Seq(Block \cup {Hole})]
      BY <3>2, <3>3 DEF TypeOK
    <3> QED BY <3>4, <3>5 DEF TypeOK, history
  <2>3. CASE ~(Len(buf[p]) + 1 <= Len(s))
    BY <1>8, <2>1, <2>3
       DEF r_read, files, history, TypeOK, PC, StorePC, ReadPC
  <2> QED BY <2>2, <2>3
<1>9. ASSUME NEW p \in Proc, load_meta_and_verify(p) PROVE TypeOK'
  <2>1. buf[p] \in Seq(Block \cup {Hole})
    BY DEF TypeOK
  <2>2. PICK outcome \in Outcome : Finish(p, outcome)
    BY <1>9, <2>1, Named DEF load_meta_and_verify
  <2>3. UNCHANGED <<files, offered, solo, quiet, snap>>
    BY <1>9 DEF load_meta_and_verify, history
  <2> QED BY <2>2, <2>3, FilesUnchanged, FinishTyped DEF TypeOK
<1>10. ASSUME NEW p \in Proc, delete_shard(p) PROVE TypeOK'
  <2>1. solo' \in [Proc -> BOOLEAN] /\ quiet' \in Disk /\ snap' \in [Proc -> Disk]
    BY <1>10, Named DEF delete_shard, BeginWriting
  <2>2. result' \in [Proc -> Outcome]
    BY <1>10, Named DEF delete_shard, TypeOK
  <2> QED BY <1>10, <2>1, <2>2
       DEF delete_shard, files, TypeOK, PC, StorePC, DeletePC, Writing
<1>11. ASSUME NEW p \in Proc, d_shard(p) PROVE TypeOK'
  BY <1>11 DEF d_shard, files, history, TypeOK, PC, StorePC, DeletePC, Writing
<1>12. ASSUME NEW p \in Proc, d_rm_shard(p) PROVE TypeOK'
  <2>1. CASE dirent["shard"] # NoInode
    <3>1. FilesOK'
      BY <1>12, <2>1, UnlinkTyped DEF d_rm_shard, Finish, history, File
    <3> QED BY <1>12, <2>1, <3>1
         DEF d_rm_shard, history, TypeOK, FilesOK, PC, StorePC, DeletePC, Writing
  <2>2. CASE dirent["shard"] = NoInode
    BY <1>12, <2>2, Named, FilesUnchanged, FinishTyped DEF d_rm_shard, history, TypeOK
  <2> QED BY <2>1, <2>2
<1>13. ASSUME NEW p \in Proc, d_meta(p) PROVE TypeOK'
  <2>1. CASE dirent["meta"] # NoInode
    BY <1>13, <2>1
       DEF d_meta, files, history, TypeOK, PC, StorePC, DeletePC, Writing
  <2>2. CASE dirent["meta"] = NoInode
    <3>1. quiet' \in Disk
      BY <1>13, <2>2, Named DEF d_meta, Settle, TypeOK
    <3> QED BY <1>13, <2>2, <3>1, Named, FilesUnchanged, FinishTyped
         DEF d_meta, Settle, TypeOK
  <2> QED BY <2>1, <2>2
<1>14. ASSUME NEW p \in Proc, d_rm_meta(p) PROVE TypeOK'
  <2>1. CASE dirent["meta"] # NoInode
    <3>1. FilesOK'
      BY <1>14, <2>1, UnlinkTyped DEF d_rm_meta, Settle, File
    <3>2. quiet' \in Disk
      BY <1>14, <2>1, Named DEF d_rm_meta, Settle, TypeOK
    <3> QED BY <1>14, <2>1, <3>1, <3>2, Named, FinishTyped
         DEF d_rm_meta, Settle, TypeOK
  <2>2. CASE dirent["meta"] = NoInode
    BY <1>14, <2>2, Named, FilesUnchanged, FinishTyped DEF d_rm_meta, history, TypeOK
  <2> QED BY <2>1, <2>2
<1>15. ASSUME NEW p \in Proc, Abandon(p) PROVE TypeOK'
  BY <1>15, Named, FilesUnchanged, FinishTyped DEF Abandon, history, TypeOK
<1>16. CASE UNCHANGED storeVars
  BY <1>16 DEF storeVars, TypeOK
<1> QED
  BY <1>1, <1>2, <1>3, <1>4, <1>5, <1>6, <1>7, <1>8, <1>9, <1>10, <1>11,
     <1>12, <1>13, <1>14, <1>15, <1>16 DEF StoreNext, Step

\* An empty store is well typed.
LEMMA InitTyped == StoreInit => TypeOK
<1>1. <<>> \in Seq(Block \cup {Hole}) /\ <<>> \in Seq({} \cup {Junk})
  OBVIOUS
<1> QED BY <1>1, Named DEF StoreInit, TypeOK, File, PC, StorePC

\* The type invariant holds in every reachable state: every thread that reads
\* or writes a file has it open, and metadata files hold hashes of stored data.
THEOREM TypeCorrect == StoreSpec => []TypeOK
BY InitTyped, TypeStep, PTL DEF StoreSpec

-----------------------------------------------------------------------------
(* The inductive invariant behind the other three properties.              *)

\* Metadata files begin with the hash of something a caller stored, and so a
\* retrieve_shard whose hash comparison succeeds returns stored data.
MetaInv ==
    \A i \in Inode : content["meta"][i] # <<>> => content["meta"][i][1] \in offered
ResultInv ==
    \A p \in Proc : result[p].tag = "ok" => result[p].val \in offered

\* Sequence s is the beginning of sequence t.
Begins(s, t) == Len(s) <= Len(t) /\ \A j \in 1..Len(s) : s[j] = t[j]

\* A writer that is alone, and what is known of the disk, exclude other writers;
\* a reader that still trusts its snapshot has seen no writer begin.
Exclusion ==
    /\ \A p \in Proc : solo[p] /\ pc[p] \in Writing =>
         \A q \in Proc \ {p} : pc[q] \notin Writing
    /\ quiet.tag # "unknown" => \A p \in Proc : pc[p] \notin Writing
    /\ \A p \in Proc : snap[p].tag = "unknown" \/ snap[p] = quiet
    /\ \A p \in Proc : pc[p] \in {"idle", "s_open"} \cup DeletePC => buf[p] = <<>>

\* What a writer that is alone has brought about so far.
SoloInv(p) ==
    LET s == dirent["shard"]  m == dirent["meta"] IN
    /\ pc[p] = "s_write" => /\ s = fd[p] /\ content["shard"][s] = buf[p]
                            /\ Begins(buf[p], data[p])
    /\ pc[p] = "m_write" => /\ s # NoInode /\ content["shard"][s] = data[p]
                            /\ m = fd[p] /\ content["meta"][m] = <<>>
    /\ pc[p] \in {"d_meta", "d_rm_meta"} => s = NoInode

\* What a reader that met no writer has read so far.
ReadInv(p) ==
    /\ snap[p].tag = "deleted" => pc[p] \notin ReadPC
    /\ snap[p].tag = "holds" =>
         /\ pc[p] = "r_read" => /\ fd[p] = dirent["shard"]
                                /\ Begins(buf[p], snap[p].val)
         /\ pc[p] = "r_meta" => buf[p] = snap[p].val

IInv ==
    /\ TypeOK
    /\ MetaInv
    /\ ResultInv
    /\ Exclusion
    /\ \A p \in Proc : solo[p] => SoloInv(p)
    /\ \A p \in Proc : ReadInv(p)
    /\ QuietDisk
    /\ QuietReadCorrect

-----------------------------------------------------------------------------
\* While a thread writes nothing is known of the disk, no snapshot is trusted,
\* and no other thread writes alone.
LEMMA WriterFacts ==
    ASSUME IInv, NEW p \in Proc, pc[p] \in Writing
    PROVE  /\ quiet.tag = "unknown"
           /\ \A q \in Proc : snap[q].tag = "unknown"
           /\ \A q \in Proc \ {p} : solo[q] => pc[q] \notin Writing
BY DEF IInv, Exclusion

\* A step of a writer, up to what it does to its own facts.
LEMMA WriterStep ==
    ASSUME IInv, NEW p \in Proc, pc[p] \in Writing,
           TypeOK', MetaInv', ResultInv',
           UNCHANGED <<solo, snap>>,
           pc'[p] \in Writing \/ pc'[p] = "idle",
           pc'[p] \in {"idle", "s_open"} \cup DeletePC => buf'[p] = <<>>,
           \A q \in Proc \ {p} : pc'[q] = pc[q] /\ buf'[q] = buf[q],
           \/ quiet' = quiet
           \/ solo[p] /\ pc'[p] = "idle" /\ QuietDisk',
           solo[p] => SoloInv(p)'
    PROVE  IInv'
<1>1. /\ quiet.tag = "unknown"
      /\ \A q \in Proc : snap'[q].tag = "unknown"
      /\ \A q \in Proc \ {p} : solo'[q] => pc'[q] \notin Writing
  BY WriterFacts
<1>2. Exclusion'
  <2>1. ASSUME NEW q \in Proc, solo'[q], pc'[q] \in Writing,
               NEW r \in Proc \ {q}
        PROVE  pc'[r] \notin Writing
    BY <1>1, <2>1 DEF IInv, Exclusion, Writing, StorePC, DeletePC
  <2>2. ASSUME quiet'.tag # "unknown", NEW q \in Proc PROVE pc'[q] \notin Writing
    BY <1>1, <2>2 DEF IInv, Exclusion, Writing, StorePC, DeletePC
  <2>3. \A q \in Proc : pc'[q] \in {"idle", "s_open"} \cup DeletePC => buf'[q] = <<>>
    BY DEF IInv, Exclusion
  <2> QED BY <1>1, <2>1, <2>2, <2>3 DEF Exclusion
<1>3. ASSUME NEW q \in Proc, solo'[q] PROVE SoloInv(q)'
  <2>1. CASE q = p
    BY <1>3, <2>1
  <2>2. CASE q # p
    BY <1>1, <1>3, <2>2 DEF SoloInv, Writing, StorePC, DeletePC
  <2> QED BY <2>1, <2>2
<1>4. QuietDisk'
  BY <1>1 DEF QuietDisk
<1>5. (\A q \in Proc : ReadInv(q))' /\ QuietReadCorrect'
  BY <1>1 DEF ReadInv, QuietReadCorrect
<1> QED BY <1>2, <1>3, <1>4, <1>5 DEF IInv

\* A step of a thread that does not write, up to what it has read.
LEMMA ReaderStep ==
    ASSUME IInv, NEW p \in Proc, pc[p] \notin Writing, pc'[p] \notin Writing,
           TypeOK', ResultInv',
           UNCHANGED <<dirent, content, offered, solo, quiet>>,
           pc'[p] = "idle" => buf'[p] = <<>>,
           snap'[p] = quiet \/ snap'[p] = snap[p],
           \A q \in Proc \ {p} : /\ pc'[q] = pc[q] /\ buf'[q] = buf[q]
                                 /\ fd'[q] = fd[q] /\ snap'[q] = snap[q]
                                 /\ result'[q] = result[q] /\ data'[q] = data[q],
           ReadInv(p)',
           pc'[p] = "idle" /\ result'[p] # NoResult =>
               /\ snap'[p].tag = "holds" => result'[p] = Ok(snap'[p].val)
               /\ snap'[p].tag = "deleted" => result'[p] = Err
    PROVE  IInv'
<1>1. MetaInv' /\ QuietDisk'
  BY DEF IInv, MetaInv, QuietDisk
<1>2. Exclusion'
  <2>1. ASSUME NEW q \in Proc, solo'[q], pc'[q] \in Writing, NEW r \in Proc \ {q}
        PROVE  pc'[r] \notin Writing
    BY <2>1 DEF IInv, Exclusion
  <2>2. quiet'.tag # "unknown" => \A q \in Proc : pc'[q] \notin Writing
    BY DEF IInv, Exclusion
  <2>3. \A q \in Proc : snap'[q].tag = "unknown" \/ snap'[q] = quiet'
    BY DEF IInv, Exclusion
  <2>4. \A q \in Proc : pc'[q] \in {"idle", "s_open"} \cup DeletePC => buf'[q] = <<>>
    BY DEF IInv, Exclusion, Writing, StorePC
  <2> QED BY <2>1, <2>2, <2>3, <2>4 DEF Exclusion
<1>3. ASSUME NEW q \in Proc, solo'[q] PROVE SoloInv(q)'
  <2>1. CASE q = p
    BY <2>1 DEF SoloInv, Writing, StorePC, DeletePC
  <2>2. CASE q # p
    BY <1>3, <2>2 DEF IInv, SoloInv
  <2> QED BY <2>1, <2>2
<1>4. ASSUME NEW q \in Proc PROVE ReadInv(q)'
  BY DEF IInv, ReadInv
<1>5. QuietReadCorrect'
  <2> SUFFICES ASSUME NEW q \in Proc, pc'[q] = "idle", result'[q] # NoResult
               PROVE  /\ snap'[q].tag = "holds" => result'[q] = Ok(snap'[q].val)
                      /\ snap'[q].tag = "deleted" => result'[q] = Err
    BY DEF QuietReadCorrect, NoResult, Ok, Err
  <2>1. CASE q = p
    BY <2>1
  <2>2. CASE q # p
    BY <2>2 DEF IInv, QuietReadCorrect
  <2> QED BY <2>1, <2>2
<1> QED BY <1>1, <1>2, <1>3, <1>4, <1>5 DEF IInv

\* A thread that begins to write makes everything else unknown.
LEMMA BeginStep ==
    ASSUME IInv, NEW p \in Proc, pc[p] = "idle", BeginWriting(p),
           TypeOK', UNCHANGED <<dirent, content, buf>>,
           offered \subseteq offered',
           result' = [result EXCEPT ![p] = NoResult],
           pc' = [pc EXCEPT ![p] = "s_open"] \/ pc' = [pc EXCEPT ![p] = "d_shard"]
    PROVE  IInv'
<1>1. /\ quiet'.tag = "unknown"
      /\ \A q \in Proc : snap'[q].tag = "unknown"
      /\ \A q \in Proc \ {p} : ~solo'[q]
      /\ solo'[p] => \A q \in Proc \ {p} : pc[q] \notin Writing
  BY DEF BeginWriting, Unknown
<1>2. /\ pc'[p] \in {"s_open", "d_shard"}
      /\ \A q \in Proc \ {p} : pc'[q] = pc[q]
  BY DEF IInv, TypeOK
<1>3. MetaInv' /\ ResultInv'
  BY DEF IInv, MetaInv, ResultInv, TypeOK, NoResult
<1>4. Exclusion'
  BY <1>1, <1>2 DEF IInv, Exclusion
<1>5. (\A q \in Proc : solo[q] => SoloInv(q))'
  BY <1>1, <1>2 DEF SoloInv
<1>6. (\A q \in Proc : ReadInv(q))' /\ QuietReadCorrect' /\ QuietDisk'
  BY <1>1 DEF ReadInv, QuietReadCorrect, QuietDisk
<1> QED BY <1>3, <1>4, <1>5, <1>6 DEF IInv

-----------------------------------------------------------------------------
\* A sequence that begins another one and is as long is that other one.
LEMMA BeginsWhole ==
    ASSUME NEW S, NEW T, NEW s \in Seq(S), NEW t \in Seq(T), Begins(s, t), Len(s) = Len(t)
    PROVE  s = t
BY DEF Begins

\* Appending the next element of t keeps s its beginning.
LEMMA BeginsNext ==
    ASSUME NEW S, NEW T, NEW s \in Seq(S), NEW t \in Seq(T), Begins(s, t), Len(s) < Len(t),
           t[Len(s) + 1] \in S
    PROVE  Begins(Append(s, t[Len(s) + 1]), t)
<1>1. Len(Append(s, t[Len(s) + 1])) = Len(s) + 1
  OBVIOUS
<1>2. \A j \in 1..(Len(s) + 1) : Append(s, t[Len(s) + 1])[j] = t[j]
  BY DEF Begins
<1> QED BY <1>1, <1>2 DEF Begins

\* A write at the end of a file appends to it.
LEMMA OverwriteEnd ==
    ASSUME NEW s \in Seq(Block \cup {Hole}), NEW b \in Block
    PROVE  Overwrite(s, Len(s) + 1, b) = Append(s, b)
<1> DEFINE w == Overwrite(s, Len(s) + 1, b)
           t == Append(s, b)
<1>1. Len(s) \in Nat
  OBVIOUS
<1>2. w \in Seq(Block \cup {Hole})
  BY <1>1, OverwriteTyped
<1>3. t \in Seq(Block \cup {Hole}) /\ Len(t) = Len(s) + 1
  OBVIOUS
<1>4. w = [j \in 1..(Len(s) + 1) |-> IF j = Len(s) + 1 THEN b ELSE s[j]]
  BY <1>1 DEF Overwrite
<1>5. Len(w) = Len(s) + 1
  BY <1>1, <1>4
<1>6. \A j \in 1..(Len(s) + 1) : w[j] = t[j]
  BY <1>1, <1>4
<1> HIDE DEF w, t
<1>7. Begins(w, t)
  BY <1>1, <1>3, <1>5, <1>6 DEF Begins
<1>8. w = t
  BY <1>2, <1>3, <1>5, <1>7, BeginsWhole
<1> QED BY <1>8 DEF w, t

\* Opening a file for writing names the inode that is open and empties it; the
\* other file keeps its name and its contents.
LEMMA Truncated ==
    ASSUME TypeOK, NEW p \in Proc, NEW f \in File, OpenTruncate(p, f)
    PROVE  /\ dirent'[f] = fd'[p] /\ fd'[p] \in Inode
           /\ content'[f][fd'[p]] = <<>>
           /\ \A i \in Inode : content'[f][i] = content[f][i] \/ content'[f][i] = <<>>
           /\ \A g \in File \ {f} : dirent'[g] = dirent[g] /\ content'[g] = content[g]
<1>1. dirent[f] \in Inode \cup {NoInode} /\ dirent \in [File -> Inode \cup {NoInode}]
  BY DEF TypeOK
<1>2. PICK i \in Inode :
        /\ dirent'[f] = i
        /\ \A g \in File \ {f} : dirent'[g] = dirent[g]
        /\ content' = [content EXCEPT ![f][i] = <<>>]
        /\ fd' = [fd EXCEPT ![p] = i]
  BY <1>1 DEF OpenTruncate
<1>3. fd'[p] = i
  BY <1>2 DEF TypeOK
<1>4. /\ content'[f] = [content[f] EXCEPT ![i] = <<>>]
      /\ \A g \in File \ {f} : content'[g] = content[g]
  BY <1>2 DEF TypeOK
<1>5. DOMAIN content[f] = Inode
  BY DEF TypeOK, File
<1> QED BY <1>2, <1>3, <1>4, <1>5

\* The operations that finish a thread's work.
LEMMA Finished ==
    ASSUME TypeOK, NEW p \in Proc, NEW outcome, Finish(p, outcome)
    PROVE  /\ pc'[p] = "idle" /\ buf'[p] = <<>> /\ result'[p] = outcome
           /\ \A q \in Proc \ {p} : /\ pc'[q] = pc[q] /\ buf'[q] = buf[q]
                                    /\ fd'[q] = fd[q] /\ result'[q] = result[q]
                                    /\ data'[q] = data[q]
BY DEF Finish, TypeOK

\* Every step keeps the inductive invariant.
LEMMA InvStep == IInv /\ [StoreNext]_storeVars => IInv'
<1> SUFFICES ASSUME IInv, [StoreNext]_storeVars PROVE IInv'
  OBVIOUS
<1> USE DEF Writing, StorePC, DeletePC, ReadPC
<1>0. TypeOK /\ TypeOK'
  BY TypeStep DEF IInv
<1>1. ASSUME NEW p \in Proc, NEW d \in Data, store_shard(p, d) PROVE IInv'
  BY <1>0, <1>1, BeginStep DEF store_shard, Idle
<1>2. ASSUME NEW p \in Proc, delete_shard(p) PROVE IInv'
  BY <1>0, <1>2, BeginStep DEF delete_shard, Idle, files
<1>3. ASSUME NEW p \in Proc, s_open(p) PROVE IInv'
  <2>1. /\ dirent'["shard"] = fd'[p] /\ fd'[p] \in Inode
        /\ content'["shard"][fd'[p]] = <<>> /\ content'["meta"] = content["meta"]
    BY <1>0, <1>3, Truncated DEF s_open, File
  <2>2. /\ pc[p] = "s_open" /\ pc'[p] = "s_write" /\ buf[p] = <<>> /\ buf'[p] = <<>>
        /\ \A q \in Proc \ {p} : pc'[q] = pc[q] /\ buf'[q] = buf[q]
    BY <1>0, <1>3 DEF s_open, TypeOK, IInv, Exclusion
  <2>3. data'[p] \in Seq(Block)
    BY <1>0, <2>2 DEF TypeOK
  <2>4. UNCHANGED <<result, offered, solo, quiet, snap>>
    BY <1>3 DEF s_open, history
  <2>5. MetaInv' /\ ResultInv'
    BY <2>1, <2>4 DEF IInv, MetaInv, ResultInv
  <2>6. SoloInv(p)'
    BY <2>1, <2>2, <2>3 DEF SoloInv, Begins
  <2> QED BY <1>0, <2>2, <2>4, <2>5, <2>6, WriterStep
<1>4. ASSUME NEW p \in Proc, s_write(p) PROVE IInv'
  <2>1. /\ pc[p] = "s_write" /\ pc' = pc
        /\ UNCHANGED <<dirent, data, fd, result, offered, solo, quiet, snap>>
    BY <1>4 DEF s_write, history
  <2>2. /\ fd[p] \in Inode /\ data[p] \in Seq(Block)
        /\ buf[p] \in Seq(Block \cup {Hole}) /\ Len(buf[p]) < Len(data[p])
        /\ content'["meta"] = content["meta"]
        /\ content'["shard"] =
             [content["shard"] EXCEPT ![fd[p]] =
                 Overwrite(@, Len(buf[p]) + 1, data[p][Len(buf[p]) + 1])]
        /\ buf'[p] = Append(buf[p], data[p][Len(buf[p]) + 1])
        /\ \A q \in Proc \ {p} : buf'[q] = buf[q]
    BY <1>0, <1>4, BlockWritten DEF s_write, TypeOK
  <2>3. data[p][Len(buf[p]) + 1] \in Block
    BY <2>2
  <2>4. MetaInv' /\ ResultInv'
    BY <2>1, <2>2 DEF IInv, MetaInv, ResultInv
  <2>5. ASSUME solo[p] PROVE SoloInv(p)'
    <3>1. /\ dirent["shard"] = fd[p] /\ content["shard"][fd[p]] = buf[p]
          /\ Begins(buf[p], data[p])
      BY <2>1, <2>5 DEF IInv, SoloInv
    <3>2. content'["shard"][fd[p]] =
            Overwrite(buf[p], Len(buf[p]) + 1, data[p][Len(buf[p]) + 1])
      BY <1>0, <2>2, <3>1 DEF TypeOK
    <3>3. content'["shard"][fd[p]] = buf'[p]
      BY <2>2, <2>3, <3>2, OverwriteEnd
    <3>4. Begins(buf'[p], data[p])
      <4>1. data[p][Len(buf[p]) + 1] \in Block \cup {Hole}
        BY <2>3
      <4>2. Begins(Append(buf[p], data[p][Len(buf[p]) + 1]), data[p])
        BY <2>2, <3>1, <4>1, BeginsNext, Zenon
      <4> QED BY <2>2, <4>2, Zenon
    <3> QED BY <2>1, <3>1, <3>3, <3>4 DEF SoloInv
  <2> QED BY <1>0, <2>1, <2>2, <2>4, <2>5, WriterStep
<1>5. ASSUME NEW p \in Proc, save_meta_open(p) PROVE IInv'
  <2>1. /\ dirent'["meta"] = fd'[p] /\ fd'[p] \in Inode
        /\ content'["meta"][fd'[p]] = <<>>
        /\ \A i \in Inode : content'["meta"][i] = content["meta"][i]
                            \/ content'["meta"][i] = <<>>
        /\ dirent'["shard"] = dirent["shard"] /\ content'["shard"] = content["shard"]
    BY <1>0, <1>5, Truncated DEF save_meta_open, File
  <2>2. /\ pc[p] = "s_write" /\ pc'[p] = "m_write"
        /\ \A q \in Proc \ {p} : pc'[q] = pc[q] /\ buf'[q] = buf[q]
        /\ Len(buf[p]) = Len(data[p])
    BY <1>0, <1>5 DEF save_meta_open, TypeOK
  <2>3. UNCHANGED <<data, result, offered, solo, quiet, snap>>
    BY <1>5 DEF save_meta_open, history
  <2>4. MetaInv' /\ ResultInv'
    BY <2>1, <2>3 DEF IInv, MetaInv, ResultInv
  <2>5. ASSUME solo[p] PROVE SoloInv(p)'
    <3>1. /\ dirent["shard"] = fd[p] /\ content["shard"][fd[p]] = buf[p]
          /\ Begins(buf[p], data[p])
      BY <2>2, <2>5 DEF IInv, SoloInv
    <3>2. fd[p] \in Inode /\ data[p] \in Seq(Block) /\ buf[p] \in Seq(Block \cup {Hole})
      BY <1>0, <2>2 DEF TypeOK
    <3>3. buf[p] = data[p]
      BY <2>2, <3>1, <3>2, BeginsWhole
    <3> QED BY <2>1, <2>2, <2>3, <3>1, <3>2, <3>3 DEF SoloInv
  <2> QED BY <1>0, <2>2, <2>3, <2>4, <2>5, WriterStep
<1>6. ASSUME NEW p \in Proc, save_meta_write(p) PROVE IInv'
  <2>1. /\ pc[p] = "m_write" /\ Finish(p, Done) /\ dirent' = dirent
        /\ quiet' = IF solo[p] THEN Holds(data[p]) ELSE quiet
        /\ UNCHANGED <<offered, solo, snap>>
    BY <1>6 DEF save_meta_write, Settle
  <2>2. /\ pc'[p] = "idle" /\ buf'[p] = <<>> /\ result'[p] = Done
        /\ \A q \in Proc \ {p} : pc'[q] = pc[q] /\ buf'[q] = buf[q]
                                 /\ result'[q] = result[q]
    BY <1>0, <2>1, Finished
  <2>3. /\ fd[p] \in Inode /\ data[p] \in offered
        /\ content'["shard"] = content["shard"]
        /\ \A i \in Inode : i # fd[p] => content'["meta"][i] = content["meta"][i]
        /\ \/ content'["meta"][fd[p]] = <<data[p]>>
           \/ /\ content'["meta"][fd[p]] = <<data[p], Junk>>
              /\ content["meta"][fd[p]] # <<>>
    BY <1>0, <1>6, MetaWritten
  <2>4. MetaInv' /\ ResultInv'
    <3>1. content'["meta"][fd[p]][1] = data[p]
      BY <2>3
    <3>2. MetaInv'
      BY <2>1, <2>3, <3>1 DEF IInv, MetaInv
    <3>3. ResultInv'
      BY <2>1, <2>2 DEF IInv, ResultInv, Done
    <3> QED BY <3>2, <3>3
  <2>5. ASSUME solo[p] PROVE QuietDisk'
    <3>1. /\ dirent["shard"] # NoInode /\ content["shard"][dirent["shard"]] = data[p]
          /\ dirent["meta"] = fd[p] /\ content["meta"][fd[p]] = <<>>
      BY <2>1, <2>5 DEF IInv, SoloInv
    <3>2. content'["meta"][fd[p]] = <<data[p]>>
      BY <2>3, <3>1
    <3>3. quiet'.tag = "holds" /\ quiet'.val = data[p] /\ fd[p] # NoInode
      BY <2>1, <2>3, <2>5 DEF Holds
    <3> QED BY <2>1, <2>3, <3>1, <3>2, <3>3 DEF QuietDisk
  <2>6. SoloInv(p)'
    BY <2>2 DEF SoloInv
  <2> QED BY <1>0, <2>1, <2>2, <2>4, <2>5, <2>6, WriterStep
<1>7. ASSUME NEW p \in Proc, retrieve_shard(p) PROVE IInv'
  <2>1. /\ pc[p] = "idle" /\ pc'[p] = "r_read"
        /\ dirent["shard"] # NoInode /\ fd'[p] = dirent["shard"]
        /\ buf'[p] = <<>> /\ snap'[p] = quiet /\ result'[p] = NoResult
        /\ \A q \in Proc \ {p} : /\ pc'[q] = pc[q] /\ buf'[q] = buf[q]
                                 /\ fd'[q] = fd[q] /\ snap'[q] = snap[q]
                                 /\ result'[q] = result[q]
    BY <1>0, <1>7 DEF retrieve_shard, Idle, IInv, Exclusion, TypeOK
  <2>2. UNCHANGED <<dirent, content, data, offered, solo, quiet>>
    BY <1>7 DEF retrieve_shard, files
  <2>3. ResultInv'
    BY <2>1, <2>2 DEF IInv, ResultInv, NoResult
  <2>4. ReadInv(p)'
    <3>1. quiet.tag # "deleted"
      BY <2>1 DEF IInv, QuietDisk
    <3>2. quiet.tag = "holds" => Begins(<<>>, quiet.val)
      <4>1. quiet.val \in Data \cup {<<>>}
        BY <1>0 DEF TypeOK, Disk
      <4>2. quiet.val \in Seq(Block)
        <5>1. <<>> \in Seq(Block)
          OBVIOUS
        <5> QED BY <4>1, <5>1, DataAssumption, Zenon
      <4> QED BY <4>2 DEF Begins
    <3> QED BY <2>1, <2>2, <3>1, <3>2 DEF ReadInv
  <2> QED BY <1>0, <2>1, <2>2, <2>3, <2>4, ReaderStep
<1>8. ASSUME NEW p \in Proc, retrieve_missing(p) PROVE IInv'
  <2>1. /\ pc[p] = "idle" /\ dirent["shard"] = NoInode /\ Finish(p, Err)
        /\ snap'[p] = quiet /\ \A q \in Proc \ {p} : snap'[q] = snap[q]
        /\ UNCHANGED <<dirent, content, offered, solo, quiet>>
    BY <1>0, <1>8 DEF retrieve_missing, Idle, files, TypeOK
  <2>2. /\ pc'[p] = "idle" /\ buf'[p] = <<>> /\ result'[p] = Err
        /\ \A q \in Proc \ {p} : /\ pc'[q] = pc[q] /\ buf'[q] = buf[q]
                                 /\ fd'[q] = fd[q] /\ result'[q] = result[q]
                                 /\ data'[q] = data[q]
    BY <1>0, <2>1, Finished
  <2>3. ResultInv'
    BY <2>1, <2>2 DEF IInv, ResultInv, Err
  <2>4. quiet.tag # "holds"
    BY <2>1 DEF IInv, QuietDisk
  <2> QED BY <1>0, <2>1, <2>2, <2>3, <2>4, ReaderStep DEF ReadInv
<1>9. ASSUME NEW p \in Proc, r_read(p) PROVE IInv'
  <2> DEFINE s == content["shard"][fd[p]]
             k == Len(buf[p]) + 1
  <2>1. /\ pc[p] = "r_read" /\ fd[p] \in Inode
        /\ s \in Seq(Block \cup {Hole}) /\ buf[p] \in Seq(Block \cup {Hole})
    BY <1>0, <1>9 DEF r_read, TypeOK
  <2>2. UNCHANGED <<dirent, content, data, result, offered, solo, quiet, snap>>
    BY <1>9 DEF r_read, files, history
  <2>3. ResultInv'
    BY <2>2 DEF IInv, ResultInv
  <2>4. ASSUME snap[p].tag = "holds"
        PROVE  s = snap[p].val /\ Begins(buf[p], s) /\ fd[p] = dirent["shard"]
    BY <2>1, <2>4 DEF IInv, Exclusion, ReadInv, QuietDisk
  <2>5. CASE k <= Len(s)
    <3>1. /\ buf'[p] = Append(buf[p], s[k]) /\ UNCHANGED <<pc, fd>>
          /\ \A q \in Proc \ {p} : buf'[q] = buf[q]
      BY <1>0, <1>9, <2>1, <2>5 DEF r_read, TypeOK
    <3>2. Len(buf[p]) < Len(s) /\ s[k] \in Block \cup {Hole}
      BY <2>1, <2>5
    <3>3. ReadInv(p)'
      <4>1. ASSUME snap[p].tag = "holds" PROVE Begins(buf'[p], snap[p].val)
        BY <2>1, <2>4, <3>1, <3>2, <4>1, BeginsNext
      <4>2. snap[p].tag # "deleted"
        BY <2>1 DEF IInv, ReadInv
      <4> QED BY <2>1, <2>2, <2>4, <3>1, <4>1, <4>2 DEF ReadInv
    <3> QED BY <1>0, <2>1, <2>2, <2>3, <3>1, <3>3, ReaderStep
  <2>6. CASE ~(k <= Len(s))
    <3>1. /\ pc'[p] = "r_meta" /\ buf' = buf
          /\ \A q \in Proc \ {p} : pc'[q] = pc[q] /\ fd'[q] = fd[q]
      BY <1>0, <1>9, <2>1, <2>6 DEF r_read, TypeOK
    <3>2. ReadInv(p)'
      <4>1. ASSUME snap[p].tag = "holds" PROVE buf[p] = snap[p].val
        <5>1. Len(buf[p]) = Len(s)
          BY <2>1, <2>4, <2>6, <4>1 DEF Begins
        <5> QED BY <2>1, <2>4, <4>1, <5>1, BeginsWhole
      <4>2. snap[p].tag # "deleted"
        BY <2>1 DEF IInv, ReadInv
      <4> QED BY <2>2, <3>1, <4>1, <4>2 DEF ReadInv
    <3> QED BY <1>0, <2>1, <2>2, <2>3, <3>1, <3>2, ReaderStep
  <2> QED BY <2>5, <2>6
<1>10. ASSUME NEW p \in Proc, load_meta_and_verify(p) PROVE IInv'
  <2> DEFINE m == dirent["meta"]
             outcome == IF m # NoInode /\ Parses(content["meta"][m])
                           /\ content["meta"][m][1] = buf[p]
                        THEN Ok(buf[p]) ELSE Err
  <2>1. /\ pc[p] = "r_meta" /\ Finish(p, outcome)
        /\ UNCHANGED <<dirent, content, offered, solo, quiet, snap>>
    BY <1>10 DEF load_meta_and_verify, files, history
  <2>2. m \in Inode \cup {NoInode}
    BY <1>0 DEF TypeOK, File
  <2>3. outcome.tag = "ok" => outcome.val \in offered
    <3>1. ASSUME m # NoInode, Parses(content["meta"][m]), content["meta"][m][1] = buf[p]
          PROVE  buf[p] \in offered
      BY <2>2, <3>1 DEF IInv, MetaInv, Parses
    <3> QED BY <3>1 DEF Ok, Err
  <2>4. /\ snap[p].tag # "deleted"
        /\ snap[p].tag = "holds" => outcome = Ok(snap[p].val)
    <3>1. snap[p].tag # "deleted"
      BY <2>1 DEF IInv, ReadInv
    <3>2. ASSUME snap[p].tag = "holds" PROVE outcome = Ok(snap[p].val)
      <4>1. buf[p] = snap[p].val /\ snap[p] = quiet
        BY <2>1, <3>2 DEF IInv, ReadInv, Exclusion
      <4>2. m # NoInode /\ content["meta"][m] = <<buf[p]>>
        BY <3>2, <4>1 DEF IInv, QuietDisk
      <4> QED BY <4>1, <4>2 DEF Parses
    <3> QED BY <3>1, <3>2
  <2> HIDE DEF outcome
  <2>5. /\ pc'[p] = "idle" /\ buf'[p] = <<>> /\ result'[p] = outcome
        /\ \A q \in Proc \ {p} : /\ pc'[q] = pc[q] /\ buf'[q] = buf[q]
                                 /\ fd'[q] = fd[q] /\ result'[q] = result[q]
                                 /\ data'[q] = data[q]
    BY <1>0, <2>1, Finished
  <2>6. ResultInv'
    BY <2>1, <2>3, <2>5 DEF IInv, ResultInv
  <2> QED BY <1>0, <2>1, <2>4, <2>5, <2>6, ReaderStep DEF ReadInv
<1>11. ASSUME NEW p \in Proc, d_shard(p) PROVE IInv'
  <2>1. /\ pc[p] = "d_shard" /\ pc'[p] \in {"d_rm_shard", "d_meta"}
        /\ pc'[p] = "d_meta" => dirent["shard"] = NoInode
        /\ \A q \in Proc \ {p} : pc'[q] = pc[q]
        /\ UNCHANGED <<dirent, content, buf, result, offered, solo, quiet, snap>>
    BY <1>0, <1>11 DEF d_shard, TypeOK, files, history
  <2>2. MetaInv' /\ ResultInv'
    BY <2>1 DEF IInv, MetaInv, ResultInv
  <2>3. buf'[p] = <<>>
    BY <2>1 DEF IInv, Exclusion
  <2>4. SoloInv(p)'
    BY <2>1 DEF SoloInv
  <2> QED BY <1>0, <2>1, <2>2, <2>3, <2>4, WriterStep
<1>12. ASSUME NEW p \in Proc, d_rm_shard(p) PROVE IInv'
  <2>1. CASE dirent["shard"] # NoInode
    <3>1. /\ pc[p] = "d_rm_shard" /\ pc'[p] = "d_meta" /\ dirent'["shard"] = NoInode
          /\ \A q \in Proc \ {p} : pc'[q] = pc[q]
          /\ UNCHANGED <<content, buf, result, offered, solo, quiet, snap>>
      BY <1>0, <1>12, <2>1 DEF d_rm_shard, TypeOK, Unlink, File, history
    <3>2. MetaInv' /\ ResultInv'
      BY <3>1 DEF IInv, MetaInv, ResultInv
    <3>3. buf'[p] = <<>>
      BY <3>1 DEF IInv, Exclusion
    <3>4. SoloInv(p)'
      BY <3>1 DEF SoloInv
    <3> QED BY <1>0, <3>1, <3>2, <3>3, <3>4, WriterStep
  <2>2. CASE dirent["shard"] = NoInode
    <3>1. /\ pc[p] = "d_rm_shard" /\ Finish(p, Err)
          /\ UNCHANGED <<content, offered, solo, quiet, snap>>
      BY <1>12, <2>2 DEF d_rm_shard, files, history
    <3>2. /\ pc'[p] = "idle" /\ buf'[p] = <<>> /\ result'[p] = Err
          /\ \A q \in Proc \ {p} : pc'[q] = pc[q] /\ buf'[q] = buf[q]
                                   /\ result'[q] = result[q]
      BY <1>0, <3>1, Finished
    <3>3. MetaInv' /\ ResultInv'
      BY <3>1, <3>2 DEF IInv, MetaInv, ResultInv, Err
    <3>4. SoloInv(p)'
      BY <3>2 DEF SoloInv
    <3> QED BY <1>0, <3>1, <3>2, <3>3, <3>4, WriterStep
  <2> QED BY <2>1, <2>2
\* The two ways in which a delete_shard that succeeds ends.
<1>13. ASSUME NEW p \in Proc, pc[p] \in {"d_meta", "d_rm_meta"}, Finish(p, Done),
              Settle(p, Deleted), dirent'["meta"] = NoInode,
              dirent'["shard"] = dirent["shard"], UNCHANGED content
       PROVE  IInv'
  <2>1. /\ quiet' = IF solo[p] THEN Deleted ELSE quiet
        /\ UNCHANGED <<offered, solo, snap>>
    BY <1>13 DEF Settle
  <2>2. /\ pc'[p] = "idle" /\ buf'[p] = <<>> /\ result'[p] = Done
        /\ \A q \in Proc \ {p} : pc'[q] = pc[q] /\ buf'[q] = buf[q]
                                 /\ result'[q] = result[q]
    BY <1>0, <1>13, Finished
  <2>3. MetaInv' /\ ResultInv'
    BY <1>13, <2>1, <2>2 DEF IInv, MetaInv, ResultInv, Done
  <2>4. ASSUME solo[p] PROVE QuietDisk'
    <3>1. dirent["shard"] = NoInode
      BY <1>13, <2>4 DEF IInv, SoloInv
    <3> QED BY <1>13, <2>1, <2>4, <3>1 DEF QuietDisk, Deleted
  <2>5. SoloInv(p)'
    BY <2>2 DEF SoloInv
  <2> QED BY <1>0, <1>13, <2>1, <2>2, <2>3, <2>4, <2>5, WriterStep
<1>14. ASSUME NEW p \in Proc, d_meta(p) PROVE IInv'
  <2>1. CASE dirent["meta"] # NoInode
    <3>1. /\ pc[p] = "d_meta" /\ pc'[p] = "d_rm_meta"
          /\ \A q \in Proc \ {p} : pc'[q] = pc[q]
          /\ UNCHANGED <<dirent, content, buf, result, offered, solo, quiet, snap>>
      BY <1>0, <1>14, <2>1 DEF d_meta, TypeOK, files, history
    <3>2. MetaInv' /\ ResultInv'
      BY <3>1 DEF IInv, MetaInv, ResultInv
    <3>3. buf'[p] = <<>>
      BY <3>1 DEF IInv, Exclusion
    <3>4. solo[p] => SoloInv(p)'
      BY <3>1 DEF IInv, SoloInv
    <3> QED BY <1>0, <3>1, <3>2, <3>3, <3>4, WriterStep
  <2>2. CASE dirent["meta"] = NoInode
    BY <1>13, <1>14, <2>2 DEF d_meta, files
  <2> QED BY <2>1, <2>2
<1>15. ASSUME NEW p \in Proc, d_rm_meta(p) PROVE IInv'
  <2>1. CASE dirent["meta"] # NoInode
    <3>1. dirent'["meta"] = NoInode /\ dirent'["shard"] = dirent["shard"]
      BY <1>0, <1>15, <2>1 DEF d_rm_meta, TypeOK, Unlink, File
    <3> QED BY <1>13, <1>15, <2>1, <3>1 DEF d_rm_meta
  <2>2. CASE dirent["meta"] = NoInode
    <3>1. /\ pc[p] = "d_rm_meta" /\ Finish(p, Err)
          /\ UNCHANGED <<content, offered, solo, quiet, snap>>
      BY <1>15, <2>2 DEF d_rm_meta, files, history
    <3>2. /\ pc'[p] = "idle" /\ buf'[p] = <<>> /\ result'[p] = Err
          /\ \A q \in Proc \ {p} : pc'[q] = pc[q] /\ buf'[q] = buf[q]
                                   /\ result'[q] = result[q]
      BY <1>0, <3>1, Finished
    <3>3. MetaInv' /\ ResultInv'
      BY <3>1, <3>2 DEF IInv, MetaInv, ResultInv, Err
    <3>4. SoloInv(p)'
      BY <3>2 DEF SoloInv
    <3> QED BY <1>0, <3>1, <3>2, <3>3, <3>4, WriterStep
  <2> QED BY <2>1, <2>2
<1>16. ASSUME NEW p \in Proc, Abandon(p) PROVE IInv'
  <2>1. /\ Finish(p, NoResult)
        /\ UNCHANGED <<dirent, content, offered, solo, quiet, snap>>
    BY <1>16 DEF Abandon, files, history
  <2>2. /\ pc'[p] = "idle" /\ buf'[p] = <<>> /\ result'[p] = NoResult
        /\ \A q \in Proc \ {p} : /\ pc'[q] = pc[q] /\ buf'[q] = buf[q]
                                 /\ fd'[q] = fd[q] /\ result'[q] = result[q]
                                 /\ data'[q] = data[q]
    BY <1>0, <2>1, Finished
  <2>3. MetaInv' /\ ResultInv'
    BY <2>1, <2>2 DEF IInv, MetaInv, ResultInv, NoResult
  <2>4. SoloInv(p)' /\ ReadInv(p)'
    BY <2>2 DEF SoloInv, ReadInv
  <2>5. CASE pc[p] \in Writing
    BY <1>0, <2>1, <2>2, <2>3, <2>4, <2>5, WriterStep
  <2>6. CASE pc[p] \notin Writing
    BY <1>0, <2>1, <2>2, <2>3, <2>4, <2>6, ReaderStep
  <2> QED BY <2>5, <2>6
<1>17. CASE UNCHANGED storeVars
  BY <1>17 DEF storeVars, IInv, TypeOK, MetaInv, ResultInv, Exclusion, SoloInv, ReadInv,
               QuietDisk, QuietReadCorrect
<1> QED
  BY <1>1, <1>2, <1>3, <1>4, <1>5, <1>6, <1>7, <1>8, <1>9, <1>10, <1>11,
     <1>12, <1>14, <1>15, <1>16, <1>17 DEF StoreNext, Step

\* The inductive invariant holds in every reachable state.
THEOREM InductiveInvariant == StoreSpec => []IInv
<1>1. StoreInit => IInv
  BY InitTyped DEF StoreInit, IInv, MetaInv, ResultInv, Exclusion, SoloInv, ReadInv,
         QuietDisk, QuietReadCorrect, File, NoResult, Unknown, Writing, StorePC,
         DeletePC, ReadPC
<1> QED BY <1>1, InvStep, PTL DEF StoreSpec

\* Integrity (ShardStore!RetrieveSound): a retrieve_shard that succeeds returns
\* data some caller stored, for any number of threads and any interleaving of
\* their system calls, crashes included.
THEOREM RetrievalsSound == StoreSpec => []RetrieveSound
<1>1. IInv => RetrieveSound
  BY DEF IInv, ResultInv, RetrieveSound
<1> QED BY <1>1, InductiveInvariant, PTL

\* Durability (ShardStore!QuietDisk): after an undisturbed store or delete the
\* disk holds exactly its outcome until the next writer begins.
THEOREM DiskSettled == StoreSpec => []QuietDisk
<1>1. IInv => QuietDisk
  BY DEF IInv
<1> QED BY <1>1, InductiveInvariant, PTL

\* Availability (ShardStore!QuietReadCorrect): an undisturbed read returns what
\* the last undisturbed store wrote, and fails after an undisturbed delete.
THEOREM ReadsCorrect == StoreSpec => []QuietReadCorrect
<1>1. IInv => QuietReadCorrect
  BY DEF IInv
<1> QED BY <1>1, InductiveInvariant, PTL
=============================================================================
