--------------------------- MODULE ChunkPipeline ---------------------------
(***************************************************************************)
(* The way of a file to its shards and back (core/src/chunking.rs,         *)
(* padding.rs, encryption.rs, erasure.rs; cmd_upload in                    *)
(* cli/src/commands.rs, which leaves the order "encrypt, erasure code,     *)
(* distribute to peers" and back to a later version).                      *)
(*                                                                         *)
(* A chunk is encrypted twice, when it is written and when it is written   *)
(* again, so that a reader may be handed shards of both.  Three libraries  *)
(* are external: XChaCha20-Poly1305 makes an unpredictable ciphertext that *)
(* opens only unchanged and under its own nonce; BLAKE3 identifies         *)
(* contents; Reed-Solomon is the [5, 3] code over GF(256), here over the   *)
(* integers modulo 5: a shard is the value of a quadratic polynomial.      *)
(***************************************************************************)
EXTENDS Integers, Sequences, SequencesExt, FiniteSetsExt

CONSTANTS
    Byte,               \* values of a byte of a file or a ciphertext
    CHUNK_SIZE,
    TAG_LEN,            \* 16: bytes of the authentication tag
    HeaderLen,          \* 4: bytes of the length header
    MaxFile,            \* bound: length of a file
    MaxVersions,        \* bound: encryptions of a chunk
    MaxPairs            \* bound: shards handed to one reader

ASSUME PipelineAssumption ==
    /\ Byte \subseteq 0..4 /\ 0 \in Byte
    /\ CHUNK_SIZE \in Nat \ {0} /\ HeaderLen \in 1..CHUNK_SIZE
    /\ TAG_LEN \in Nat \ {0}
    /\ MaxFile \in Nat /\ MaxVersions \in Nat /\ MaxPairs \in Nat

VARIABLES
    file,               \* the bytes cmd_upload has read
    sealed,             \* ciphertexts made so far; the position is the nonce
    shard_data          \* the (index, shard) pairs a reader was handed

pipeVars == <<file, sealed, shard_data>>

Error == <<-1>>         \* Err and None; no sequence of bytes

Files(n) == UNION {[1..k -> Byte] : k \in 0..n}
Zeros(n) == [k \in 1..n |-> 0]

-----------------------------------------------------------------------------
(* chunking.rs *)

chunk_count(n) == (n + CHUNK_SIZE - 1) \div CHUNK_SIZE

\* Mistake: only whole chunks are cut off.
chunk_data_whole(data) ==
    [i \in 1..(Len(data) \div CHUNK_SIZE) |->
        SubSeq(data, (i - 1) * CHUNK_SIZE + 1, i * CHUNK_SIZE)]

chunk_data(data) ==
    [i \in 1..chunk_count(Len(data)) |->
        SubSeq(data, (i - 1) * CHUNK_SIZE + 1, Min({i * CHUNK_SIZE, Len(data)}))]

assemble_chunks(chunks) == FlattenSeq(chunks)

\* ChunkId::new: equal contents have one id.
ChunkId(chunk) == [blake3 |-> chunk]
generate_chunk_ids(chunks) == [i \in DOMAIN chunks |-> ChunkId(chunks[i])]

-----------------------------------------------------------------------------
(* padding.rs *)

\* The data comes first, the random padding behind it.
pad_chunk(data, padding) == data \o padding

\* to_be_bytes, over HeaderLen bytes.
to_be_bytes(n) == [k \in 1..HeaderLen |-> (n \div 256^(HeaderLen - k)) % 256]
from_be_bytes(s) == FoldLeft(LAMBDA acc, b : 256 * acc + b, 0, s)

\* The header is written over the first bytes of what was padded.
pad_with_length_header(data, padding) ==
    to_be_bytes(Len(data))
        \o SubSeq(pad_chunk(data, padding), HeaderLen + 1, CHUNK_SIZE)

\* The last bytes of the chunk, as many as the header says.
unpad_with_length_header(padded) ==
    LET n == from_be_bytes(SubSeq(padded, 1, HeaderLen))
    IN IF Len(padded) < HeaderLen \/ n > Len(padded) - HeaderLen THEN Error
       ELSE SubSeq(padded, Len(padded) - n + 1, Len(padded))

-----------------------------------------------------------------------------
(* erasure.rs *)

\* Reed-Solomon: shard j of the data symbols d.
Symbol(d, j) ==
    CASE j < 3 -> d[j]
      [] j = 3 -> (d[0] + 2 * d[1] + 3 * d[2]) % 5
      [] j = 4 -> (3 * d[0] + 2 * d[1] + d[2]) % 5

\* The data symbols that have the given values at three positions.
Solve(at) == CHOOSE d \in [0..2 -> 0..4] : \A j \in DOMAIN at : Symbol(d, j) = at[j]

\* Zeros fill the data up to three shards of one length; two are computed.
encode(data) ==
    LET size == (Len(data) + 2) \div 3
        padded == data \o Zeros(3 * size - Len(data))
    IN [j \in 0..4 |-> [k \in 1..size |->
          Symbol([i \in 0..2 |-> padded[i * size + k]], j)]]

\* The last shard handed over for an index replaces an earlier one.
Slots(pairs) ==
    [j \in {p[1] : p \in Range(pairs)} |->
        pairs[Max({k \in DOMAIN pairs : pairs[k][1] = j})][2]]

\* The library refuses too few, empty and unequal shards.  It computes missing
\* data shards from the first three there are, and leaves the others alone.
rs_reconstruct(slots) ==
    LET size == Len(slots[Min(DOMAIN slots)])
        first == CHOOSE s \in kSubset(3, DOMAIN slots) :
                   \A i \in s, j \in DOMAIN slots \ s : i < j
        data(i) == IF i \in DOMAIN slots THEN slots[i]
                   ELSE [k \in 1..size |-> Solve([j \in first |-> slots[j][k]])[i]]
    IN IF Cardinality(DOMAIN slots) < 3 THEN Error
       ELSE IF size = 0 \/ \E j \in DOMAIN slots : Len(slots[j]) # size THEN Error
       ELSE data(0) \o data(1) \o data(2)

\* Mistake: the pairs are counted, and missing shards are taken to be zeros.
reconstruct_zeros(pairs) ==
    LET slots == Slots(pairs)
        size == Len(slots[Min(DOMAIN slots)])
        data(i) == IF i \in DOMAIN slots THEN slots[i] ELSE Zeros(size)
    IN IF Len(pairs) < 3 THEN Error ELSE data(0) \o data(1) \o data(2)

\* The bytes come back with the zeros that filled them up.  An index out of
\* range is an error.
reconstruct(pairs) ==
    IF Len(pairs) < 3 \/ \E p \in Range(pairs) : p[1] > 4 THEN Error
    ELSE rs_reconstruct(Slots(pairs))

-----------------------------------------------------------------------------
(* encryption.rs *)

\* What was sealed under the nonce, and nothing else, is opened; the position
\* of the seal stands for the plaintext.
decrypt(nonce, ciphertext) ==
    IF ciphertext = sealed[nonce] THEN <<nonce>> ELSE Error

-----------------------------------------------------------------------------
PipeInit == file = <<>> /\ sealed = <<>> /\ shard_data = <<>>

cmd_upload(data) ==
    /\ file = <<>> /\ shard_data = <<>>
    /\ file' = data
    /\ UNCHANGED <<sealed, shard_data>>

\* One chunk of the file goes on its way; the ciphertext is unpredictable and
\* a tag longer.
encrypt ==
    /\ Len(sealed) < MaxVersions
    /\ \E i \in DOMAIN chunk_data(file) :
         \E ciphertext \in [1..(Len(chunk_data(file)[i]) + TAG_LEN) -> Byte] :
           sealed' = Append(sealed, ciphertext)
    /\ file' = <<>>
    /\ UNCHANGED shard_data

\* A host hands over its shard of the last version, or one that is out of
\* date.  reconstruct sorts by index, so only the order of shards with the same
\* index matters.
hand_over(j, v) ==
    /\ file = <<>>
    /\ Len(shard_data) < MaxPairs
    /\ \A p \in Range(shard_data) : p[1] <= j
    /\ shard_data' = Append(shard_data, <<j, encode(sealed[v])[j]>>)
    /\ UNCHANGED <<file, sealed>>

PipeNext ==
    \/ \E data \in Files(MaxFile) : cmd_upload(data)
    \/ encrypt
    \/ \E j \in 0..4, v \in DOMAIN sealed : hand_over(j, v)

PipeSpec == PipeInit /\ [][PipeNext]_pipeVars

-----------------------------------------------------------------------------
(* Properties *)

\* Whoever stores the chunks of a file by their ids and fetches them again in
\* the order of the ids gets the file, also where chunks are equal; there are
\* as many chunks as chunk_count says, and none is empty or too long.
ChunksReassemble ==
    LET chunks == chunk_data(file)
        ids == generate_chunk_ids(chunks)
        store == [id \in Range(ids) |-> CHOOSE c \in Range(chunks) : ChunkId(c) = id]
    IN /\ assemble_chunks([i \in DOMAIN ids |-> store[ids[i]]]) = file
       /\ Len(chunks) = chunk_count(Len(file))
       /\ \A c \in Range(chunks) : Len(c) \in 1..CHUNK_SIZE

\* All shards handed over are of version v.
AllOf(v) == \A p \in Range(shard_data) : p[2] = encode(sealed[v])[p[1]]
Indices == {p[1] : p \in Range(shard_data)}

\* What a reader who wants version v makes of the shards.
Read(v) ==
    LET got == reconstruct(shard_data)
    IN IF got = Error \/ Len(got) < Len(sealed[v]) THEN Error
       ELSE decrypt(v, SubSeq(got, 1, Len(sealed[v])))

\* Any three different shards of a version bring it back, whichever of the five
\* are lost and however often one is handed over.  Fewer than three, and a
\* mixture with shards that are out of date, which reconstruct does not notice,
\* are an error: never another chunk's data, nor parts of two.
ReadsOneVersion ==
    \A v \in DOMAIN sealed :
        /\ AllOf(v) /\ Cardinality(Indices) >= 3 => Read(v) = <<v>>
        /\ Cardinality(Indices) < 3 => Read(v) = Error
        /\ Read(v) \in {<<v>>, Error}

\* padding.rs, test_pad_with_header_roundtrip, and tests/unit/core_tests.rs,
\* test_padding_roundtrip_all_sizes: a chunk that was padded with its length
\* is got back by unpadding it.
PaddingRoundTrip ==
    \A chunk \in Range(chunk_data(file)) :
        \A padding \in [1..(CHUNK_SIZE - Len(chunk)) -> Byte] :
            unpad_with_length_header(pad_with_length_header(chunk, padding)) = chunk
=============================================================================
