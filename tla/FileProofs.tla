----------------------------- MODULE FileProofs -----------------------------
(***************************************************************************)
(* The files of a store, for every value of the constants and however much *)
(* the disk damages them: the envelope of a sidecar, the payload of a      *)
(* segment, and the names in the directory.                                *)
(***************************************************************************)
EXTENDS SidecarEnvelope, SegmentPayload, FileNames, SequenceTheorems, TLAPS

-----------------------------------------------------------------------------
(* Files as sequences of cells.                                            *)

LEMMA StringsAreSeqs ==
  ASSUME NEW max \in Nat, NEW str \in Strings(max)
  PROVE  str \in Seq(Bytes) /\ Len(str) \in 0 .. max
BY DEF Strings

LEMMA Joined ==
  ASSUME NEW S, NEW s \in Seq(S), NEW t \in Seq(S)
  PROVE  /\ s \o t \in Seq(S)
         /\ Len(s \o t) = Len(s) + Len(t)
         /\ \A i \in 1 .. Len(s) : (s \o t)[i] = s[i]
         /\ \A i \in 1 .. Len(t) : (s \o t)[Len(s) + i] = t[i]
<1>1. /\ s \o t \in Seq(S)
      /\ Len(s \o t) = Len(s) + Len(t)
      /\ \A i \in 1 .. Len(s) + Len(t) :
           (s \o t)[i] = IF i <= Len(s) THEN s[i] ELSE t[i - Len(s)]
  BY ConcatProperties
<1>2. PICK a \in Nat, b \in Nat : a = Len(s) /\ b = Len(t)
  OBVIOUS
<1>3. \A i \in 1 .. a : (s \o t)[i] = s[i]
  BY <1>1, <1>2
<1>4. ASSUME NEW i \in 1 .. b
      PROVE  (s \o t)[a + i] = t[i]
  <2>1. a + i \in 1 .. a + b /\ ~(a + i <= a) /\ (a + i) - a = i
    BY <1>2
  <2> QED  BY <1>1, <1>2, <2>1
<1> QED  BY <1>1, <1>2, <1>3, <1>4

LEMMA Sliced ==
  ASSUME NEW S, NEW s \in Seq(S),
         NEW m \in 1 .. Len(s) + 1, NEW n \in m - 1 .. Len(s)
  PROVE  /\ SubSeq(s, m, n) \in Seq(S)
         /\ Len(SubSeq(s, m, n)) = n - (m - 1)
         /\ \A i \in 1 .. n - (m - 1) : SubSeq(s, m, n)[i] = s[(m - 1) + i]
<1>1. m \in Int /\ n \in Int /\ \A i \in m .. n : s[i] \in S
  OBVIOUS
<1>2. SubSeq(s, m, n) \in Seq(S)
  BY <1>1, SubSeqProperties
<1>3. Len(SubSeq(s, m, n)) = n - (m - 1)
  BY <1>1, SubSeqProperties
<1>4. ASSUME NEW i \in 1 .. n - (m - 1)
      PROVE  SubSeq(s, m, n)[i] = s[(m - 1) + i]
  <2>1. i \in 1 .. n - m + 1 /\ m + i - 1 = (m - 1) + i
    BY <1>1
  <2>2. SubSeq(s, m, n)[i] = s[m + i - 1]
    BY <1>1, <2>1, SubSeqProperties
  <2> QED  BY <2>1, <2>2
<1> QED  BY <1>2, <1>3, <1>4

\* What cutting a file off, or putting a byte behind it, leaves of its cells.
LEMMA CutOrGrown ==
  ASSUME NEW S, NEW f \in Seq(S), Bytes \subseteq S,
         NEW g \in Shortened(f) \cup Lengthened(f)
  PROVE  /\ g \in Seq(S)
         /\ \A i \in 1 .. Len(g) : \/ i <= Len(f) /\ g[i] = f[i]
                                   \/ i > HeaderCells /\ g[i] \in Bytes
<1>1. CASE g \in Shortened(f)
  <2>1. PICK n \in 0 .. Len(f) : g = SubSeq(f, 1, n)
    BY <1>1 DEF Shortened
  <2>2. \A i \in 1 .. n : f[i] \in S
    OBVIOUS
  <2>3. SubSeq(f, 1, n) \in Seq(S)
    BY <2>2, SubSeqProperties
  <2>4. Len(SubSeq(f, 1, n)) = n
    BY <2>2, SubSeqProperties
  <2>5. \A i \in 1 .. n : SubSeq(f, 1, n)[i] = f[i] /\ i <= Len(f)
    BY <2>2, SubSeqProperties
  <2>6. g \in Seq(S)
    BY <2>1, <2>3
  <2>7. \A i \in 1 .. Len(g) : i <= Len(f) /\ g[i] = f[i]
    BY <2>1, <2>4, <2>5
  <2> QED  BY <2>6, <2>7
<1>2. CASE g \in Lengthened(f)
  <2>1. PICK b \in Bytes : Len(f) >= HeaderCells /\ g = Append(f, b)
    BY <1>2 DEF Lengthened
  <2>2. g \in Seq(S) /\ Len(g) = Len(f) + 1
    BY <2>1, AppendProperties
  <2>3. \A i \in 1 .. Len(f) : g[i] = f[i]
    BY <2>1, AppendProperties
  <2>4. g[Len(f) + 1] = b
    BY <2>1, AppendProperties
  <2>5. ASSUME NEW i \in 1 .. Len(g)
        PROVE  \/ i <= Len(f) /\ g[i] = f[i]
               \/ i > HeaderCells /\ g[i] \in Bytes
    <3>1. Len(f) \in Nat /\ (i <= Len(f) \/ i = Len(f) + 1)
      BY <2>2
    <3> QED  BY <3>1, <2>1, <2>3, <2>4 DEF HeaderCells
  <2>6. g \in Seq(S)
    BY <2>2
  <2> QED  BY <2>5, <2>6
<1> QED  BY <1>1, <1>2

-----------------------------------------------------------------------------
(* The envelope of a sidecar.                                              *)

LEMMA CrcCells ==
  ASSUME NEW S, NEW f \in Seq(S), Len(f) >= HeaderCells
  PROVE  /\ Crc(f) \in Seq(S)
         /\ Len(Crc(f)) = Len(f) - 1
         /\ \A i \in 1 .. Len(f) - 1 :
              Crc(f)[i] = IF i < ChecksumCell THEN f[i] ELSE f[i + 1]
<1>1. PICK n \in Nat : n = Len(f) /\ n >= 5
  BY DEF HeaderCells
<1> DEFINE head == SubSeq(f, 1, 4)
           rest == SubSeq(f, 6, n)
<1>2. /\ head \in Seq(S) /\ Len(head) = 4
      /\ \A i \in 1 .. 4 : head[i] = f[i]
  <2>1. /\ 1 \in 1 .. Len(f) + 1 /\ 4 \in 1 - 1 .. Len(f)
        /\ 4 - (1 - 1) = 4 /\ \A i \in Nat : (1 - 1) + i = i
    BY <1>1
  <2> QED  BY <2>1, Sliced
<1>3. /\ rest \in Seq(S) /\ Len(rest) = n - 5
      /\ \A i \in 1 .. n - 5 : rest[i] = f[5 + i]
  <2>1. 6 \in 1 .. Len(f) + 1 /\ n \in 6 - 1 .. Len(f) /\ 6 - 1 = 5
    BY <1>1
  <2> QED  BY <2>1, Sliced
<1>4. Crc(f) = head \o rest
  <2>1. ChecksumCell - 1 = 4 /\ ChecksumCell + 1 = 6
    BY DEF ChecksumCell
  <2>2. Crc(f) = SubSeq(f, 1, ChecksumCell - 1) \o SubSeq(f, ChecksumCell + 1, Len(f))
    BY Zenon DEF Crc
  <2> QED  BY <2>1, <2>2, <1>1, Zenon
<1> HIDE DEF head, rest
<1>5. /\ head \o rest \in Seq(S)
      /\ Len(head \o rest) = 4 + Len(rest)
      /\ \A i \in 1 .. 4 : (head \o rest)[i] = head[i]
      /\ \A i \in 1 .. Len(rest) : (head \o rest)[4 + i] = rest[i]
  <2>0. head \in Seq(S) /\ rest \in Seq(S)
    BY <1>2, <1>3
  <2>1. head \o rest \in Seq(S)
    BY <2>0, Joined
  <2>2. Len(head \o rest) = Len(head) + Len(rest)
    BY <2>0, Joined
  <2>3. \A i \in 1 .. Len(head) : (head \o rest)[i] = head[i]
    BY <2>0, Joined
  <2>4. \A i \in 1 .. Len(rest) : (head \o rest)[Len(head) + i] = rest[i]
    BY <2>0, Joined
  <2> QED  BY <2>1, <2>2, <2>3, <2>4, <1>2, Zenon
<1>6. ASSUME NEW i \in 1 .. n - 1
      PROVE  (head \o rest)[i] = IF i < 5 THEN f[i] ELSE f[i + 1]
  <2>1. CASE i < 5
    BY <2>1, <1>2, <1>5
  <2>2. CASE i >= 5
    <3>1. i - 4 \in 1 .. n - 5 /\ 5 + (i - 4) = i + 1 /\ 4 + (i - 4) = i
      BY <2>2, <1>1
    <3>2. (head \o rest)[i] = rest[i - 4]
      BY <3>1, <1>3, <1>5
    <3>3. rest[i - 4] = f[i + 1]
      BY <3>1, <1>3
    <3> QED  BY <2>2, <3>2, <3>3
  <2>3. i < 5 \/ i >= 5
    BY <1>1
  <2> QED  BY <2>1, <2>2, <2>3, Zenon
<1>7. Len(Crc(f)) = Len(f) - 1 /\ Crc(f) \in Seq(S)
  BY <1>1, <1>3, <1>4, <1>5
<1> QED  BY <1>1, <1>4, <1>6, <1>7 DEF ChecksumCell

\* The checksum and its own cell leave nothing of a file open.
LEMMA CrcDetermines ==
  ASSUME NEW S, NEW f \in Seq(S), NEW g \in Seq(S),
         Len(f) >= HeaderCells, Len(g) >= HeaderCells,
         Crc(f) = Crc(g), f[ChecksumCell] = g[ChecksumCell]
  PROVE  f = g
<1>1. Len(f) = Len(g)
  BY CrcCells
<1>2. ASSUME NEW i \in 1 .. Len(f)
      PROVE  f[i] = g[i]
  <2>1. CASE i < ChecksumCell
    <3>1. f[i] = Crc(f)[i] /\ g[i] = Crc(g)[i]
      BY <2>1, <1>1, CrcCells DEF ChecksumCell, HeaderCells
    <3> QED  BY <3>1
  <2>2. CASE i > ChecksumCell
    <3>1. /\ i - 1 \in 1 .. Len(f) - 1 /\ ~(i - 1 < ChecksumCell)
          /\ (i - 1) + 1 = i
      BY <2>2 DEF ChecksumCell
    <3>2. f[i] = Crc(f)[i - 1] /\ g[i] = Crc(g)[i - 1]
      BY <3>1, <1>1, CrcCells
    <3> QED  BY <3>2
  <2> QED  BY <2>1, <2>2 DEF ChecksumCell
<1> QED  BY <1>1, <1>2, SeqEqual

\* What a file that was just encoded consists of.
LEMMA EncodeCells ==
  ASSUME NEW e \in Expectation, NEW content \in Seq(Bytes)
  PROVE  LET file == Encode(e, content)
             size == Len(e.recipe)
         IN  /\ file \in Seq(Nat \cup {Crc(file)})
             /\ Len(file) = HeaderCells + size + Len(content)
             /\ TagsMatch(e, file)
             /\ file[4] = size
             /\ file[ChecksumCell] = Crc(file)
             /\ \A i \in 1 .. size : file[HeaderCells + i] = e.recipe[i]
             /\ \A i \in 1 .. Len(content) : file[HeaderCells + size + i] = content[i]
<1> DEFINE size == Len(e.recipe)
           header == <<e.magic, e.version, e.segment_id, size, <<>> >>
           bytes == header \o e.recipe \o content
           C == Nat \cup {<<>>}
           file == Encode(e, content)
<1>1. /\ e.magic \in Nat /\ e.version \in Nat /\ e.segment_id \in Nat
      /\ e.recipe \in Seq(Bytes) /\ size \in Nat /\ Len(content) \in Nat
  <2>1. e.recipe \in Strings(MaxRecipe) /\ MaxRecipe \in Nat
    BY EnvelopeAssumption DEF Expectation
  <2>2. e.recipe \in Seq(Bytes)
    BY <2>1, StringsAreSeqs
  <2>3. e.magic \in Nat /\ e.version \in Nat /\ e.segment_id \in Nat
    BY EnvelopeAssumption DEF Expectation
  <2>4. size \in Nat /\ Len(content) \in Nat
    BY <2>2
  <2> QED  BY <2>2, <2>3, <2>4
<1>2. Bytes \subseteq C /\ e.recipe \in Seq(C) /\ content \in Seq(C)
  BY <1>1, CellsAssumption, SeqMonotonic
<1>3. header \in Seq(C) /\ Len(header) = 5
  BY <1>1
<1>4. /\ header[1] = e.magic /\ header[2] = e.version
      /\ header[3] = e.segment_id /\ header[4] = size /\ header[5] = <<>>
  OBVIOUS
<1>5. file = [bytes EXCEPT ![5] = Crc(bytes)]
  BY DEF Encode, ChecksumCell
<1>0. size = Len(e.recipe)
  OBVIOUS
<1> HIDE DEF header, size, C
<1>6. /\ header \o e.recipe \in Seq(C)
      /\ Len(header \o e.recipe) = 5 + size
      /\ \A i \in 1 .. 5 : (header \o e.recipe)[i] = header[i]
      /\ \A i \in 1 .. size : (header \o e.recipe)[5 + i] = e.recipe[i]
  <2>0. header \in Seq(C) /\ e.recipe \in Seq(C)
    BY <1>2, <1>3
  <2>1. header \o e.recipe \in Seq(C)
    BY <2>0, Joined
  <2>2. Len(header \o e.recipe) = Len(header) + Len(e.recipe)
    BY <2>0, Joined
  <2>3. \A i \in 1 .. Len(header) : (header \o e.recipe)[i] = header[i]
    BY <2>0, Joined
  <2>4. \A i \in 1 .. Len(e.recipe) :
          (header \o e.recipe)[Len(header) + i] = e.recipe[i]
    BY <2>0, Joined
  <2> QED  BY <2>1, <2>2, <2>3, <2>4, <1>0, <1>3, Zenon
<1>7. /\ bytes \in Seq(C)
      /\ Len(bytes) = (5 + size) + Len(content)
      /\ \A i \in 1 .. 5 + size : bytes[i] = (header \o e.recipe)[i]
      /\ \A i \in 1 .. Len(content) : bytes[(5 + size) + i] = content[i]
  <2>1. bytes \in Seq(C)
    BY <1>2, <1>6, Joined
  <2>2. Len(bytes) = (5 + size) + Len(content)
    BY <1>2, <1>6, Joined
  <2>3. \A i \in 1 .. 5 + size : bytes[i] = (header \o e.recipe)[i]
    BY <1>2, <1>6, Joined
  <2>4. \A i \in 1 .. Len(content) : bytes[(5 + size) + i] = content[i]
    BY <1>2, <1>6, Joined
  <2> QED  BY <2>1, <2>2, <2>3, <2>4
<1> HIDE DEF bytes
<1>8. /\ file \in Seq(C \cup {Crc(bytes)})
      /\ Len(file) = Len(bytes)
      /\ file[5] = Crc(bytes)
      /\ \A i \in 1 .. Len(bytes) : i # 5 => file[i] = bytes[i]
  BY <1>1, <1>5, <1>7
<1>9. /\ \A i \in 1 .. 4 : file[i] = header[i]
      /\ \A i \in 1 .. size : file[5 + i] = e.recipe[i]
      /\ \A i \in 1 .. Len(content) : file[(5 + size) + i] = content[i]
  <2>1. ASSUME NEW i \in 1 .. 4
        PROVE  file[i] = header[i]
    <3>1. i \in 1 .. 5 /\ i \in 1 .. 5 + size /\ i \in 1 .. Len(bytes) /\ i # 5
      BY <1>1, <1>7
    <3> QED  BY <3>1, <1>6, <1>7, <1>8
  <2>2. ASSUME NEW i \in 1 .. size
        PROVE  file[5 + i] = e.recipe[i]
    <3>1. 5 + i \in 1 .. 5 + size /\ 5 + i \in 1 .. Len(bytes) /\ 5 + i # 5
      BY <1>1, <1>7
    <3> QED  BY <3>1, <1>6, <1>7, <1>8
  <2>3. ASSUME NEW i \in 1 .. Len(content)
        PROVE  file[(5 + size) + i] = content[i]
    <3>1. (5 + size) + i \in 1 .. Len(bytes) /\ (5 + size) + i # 5
      BY <1>1, <1>7
    <3> QED  BY <3>1, <1>7, <1>8
  <2> QED  BY <2>1, <2>2, <2>3
<1>15. ASSUME NEW i \in 1 .. Len(file), i # 5
       PROVE  file[i] \in Nat
  <2>1. CASE i < 5
    <3>1. file[i] = header[i]
      BY <2>1, <1>9
    <3> QED  BY <2>1, <3>1, <1>1, <1>4
  <2>2. CASE i > 5 /\ i <= 5 + size
    <3>1. i - 5 \in 1 .. size /\ 5 + (i - 5) = i
      BY <2>2, <1>1
    <3>2. file[i] = e.recipe[i - 5] /\ e.recipe[i - 5] \in Bytes
      BY <3>1, <1>0, <1>1, <1>9
    <3> QED  BY <3>2, CellsAssumption
  <2>3. CASE i > 5 + size
    <3>1. /\ i - (5 + size) \in 1 .. Len(content)
          /\ (5 + size) + (i - (5 + size)) = i
      BY <2>3, <1>1, <1>7, <1>8
    <3>2. file[i] = content[i - (5 + size)] /\ content[i - (5 + size)] \in Bytes
      BY <3>1, <1>1, <1>9
    <3> QED  BY <3>2, CellsAssumption
  <2>4. i < 5 \/ (i > 5 /\ i <= 5 + size) \/ i > 5 + size
    BY <1>1, <1>15
  <2> QED  BY <2>1, <2>2, <2>3, <2>4, Zenon
<1>10. Crc(file) = Crc(bytes)
  <2> DEFINE D == C \cup {Crc(bytes)}
  <2>1. file \in Seq(D) /\ bytes \in Seq(D)
    BY <1>7, <1>8, SeqMonotonic
  <2> HIDE DEF D
  <2>2. Len(bytes) \in Nat /\ Len(bytes) >= 5 /\ Len(file) = Len(bytes)
    BY <1>1, <1>7, <1>8
  <2>3. /\ Crc(file) \in Seq(D) /\ Crc(bytes) \in Seq(D)
        /\ Len(Crc(file)) = Len(bytes) - 1 /\ Len(Crc(bytes)) = Len(bytes) - 1
    BY <2>1, <2>2, CrcCells DEF HeaderCells
  <2>4. ASSUME NEW i \in 1 .. Len(bytes) - 1
        PROVE  Crc(file)[i] = Crc(bytes)[i]
    <3>1. /\ Crc(file)[i] = IF i < 5 THEN file[i] ELSE file[i + 1]
          /\ Crc(bytes)[i] = IF i < 5 THEN bytes[i] ELSE bytes[i + 1]
      BY <2>1, <2>2, CrcCells DEF HeaderCells, ChecksumCell
    <3> QED  BY <3>1, <2>2, <1>8
  <2> QED  BY <2>3, <2>4, SeqEqual
<1>11. file \in Seq(Nat \cup {Crc(file)})
  <2>1. \A i \in 1 .. Len(file) : file[i] \in Nat \cup {Crc(file)}
    BY <1>8, <1>15, <1>10
  <2> QED  BY <2>1, <1>8
<1>12. /\ Len(file) = 5 + size + Len(content)
       /\ file[1] = e.magic /\ file[2] = e.version /\ file[3] = e.segment_id
       /\ file[4] = size
  BY <1>4, <1>7, <1>8, <1>9
<1>13. file[5] = Crc(file)
  BY <1>8, <1>10
<1> QED
  BY <1>9, <1>11, <1>12, <1>13 DEF file, size, TagsMatch, HeaderCells, ChecksumCell

\* The file as its writer left it.
Whole == Encode(tags, payload)

\* Whatever the disk did to it, the checksum in it is the writer's or wrong.
EnvelopeInv ==
  /\ tags \in Expectation
  /\ payload \in Strings(MaxPayload)
  /\ damage \in Nat
  /\ sidecar_file \in Seq(Nat \cup {<<>>, Crc(Whole)})
  /\ Len(sidecar_file) >= 4 => sidecar_file[4] \in Nat
  /\ Len(sidecar_file) >= HeaderCells => sidecar_file[ChecksumCell] \in {<<>>, Crc(Whole)}
  /\ damage = 0 => sidecar_file = Whole

LEMMA WholeFits ==
  ASSUME tags \in Expectation, payload \in Strings(MaxPayload)
  PROVE  /\ payload \in Seq(Bytes)
         /\ tags.recipe \in Seq(Bytes)
         /\ Whole \in Seq(Nat \cup {<<>>, Crc(Whole)})
         /\ Len(Whole) >= HeaderCells
         /\ Whole[4] \in Nat
         /\ Whole[ChecksumCell] = Crc(Whole)
<1>1. payload \in Seq(Bytes)
  BY EnvelopeAssumption, StringsAreSeqs
<1>2. tags.recipe \in Seq(Bytes)
  <2>1. tags.recipe \in Strings(MaxRecipe) /\ MaxRecipe \in Nat
    BY EnvelopeAssumption DEF Expectation
  <2> QED  BY <2>1, StringsAreSeqs
<1>3. /\ Whole \in Seq(Nat \cup {Crc(Whole)})
      /\ Len(Whole) = HeaderCells + Len(tags.recipe) + Len(payload)
      /\ Whole[4] = Len(tags.recipe)
      /\ Whole[ChecksumCell] = Crc(Whole)
  BY <1>1, EncodeCells DEF Whole
<1>4. Len(tags.recipe) \in Nat /\ Len(payload) \in Nat
  BY <1>1, <1>2
<1>5. Whole \in Seq(Nat \cup {<<>>, Crc(Whole)})
  BY <1>3, SeqMonotonic
<1> QED  BY <1>1, <1>2, <1>3, <1>4, <1>5 DEF HeaderCells

LEMMA EnvelopeInit == EInit => EnvelopeInv
<1> SUFFICES ASSUME EInit PROVE EnvelopeInv
  OBVIOUS
<1>1. /\ tags \in Expectation /\ payload \in Strings(MaxPayload)
      /\ sidecar_file = Whole /\ damage = 0
  BY DEF EInit, Whole
<1> QED  BY <1>1, WholeFits DEF EnvelopeInv

LEMMA SpoilSidecarInv == EnvelopeInv /\ SpoilSidecar => EnvelopeInv'
<1> SUFFICES ASSUME EnvelopeInv, SpoilSidecar PROVE EnvelopeInv'
  OBVIOUS
<1> DEFINE crc == Crc(Whole)
           C == Nat \cup {<<>>, crc}
<1>1. /\ UNCHANGED <<tags, payload>> /\ damage' \in Nat /\ damage' # 0
      /\ Crc(Whole)' = crc
  BY CellsAssumption DEF SpoilSidecar, EnvelopeInv, Whole
<1>2. /\ sidecar_file \in Seq(C)
      /\ Len(sidecar_file) >= 4 => sidecar_file[4] \in Nat
      /\ Len(sidecar_file) >= 5 => sidecar_file[5] \in {<<>>, crc}
  BY DEF EnvelopeInv, HeaderCells, ChecksumCell
<1> HIDE DEF crc
<1>3. /\ sidecar_file' \in Seq(C)
      /\ Len(sidecar_file') >= 4 => sidecar_file'[4] \in Nat
      /\ Len(sidecar_file') >= 5 => sidecar_file'[5] \in {<<>>, crc}
  <2>1. CASE sidecar_file' \in Shortened(sidecar_file) \cup Lengthened(sidecar_file)
    <3>1. Bytes \subseteq C
      BY CellsAssumption
    <3> HIDE DEF C
    <3>2. /\ sidecar_file' \in Seq(C)
          /\ \A i \in 1 .. Len(sidecar_file') :
               \/ i <= Len(sidecar_file) /\ sidecar_file'[i] = sidecar_file[i]
               \/ i > HeaderCells
      BY <1>2, <2>1, <3>1, CutOrGrown
    <3> QED  BY <1>2, <3>2 DEF HeaderCells
  <2>2. CASE \E i \in DOMAIN sidecar_file : sidecar_file' \in Flipped(i)
    <3>1. PICK i \in DOMAIN sidecar_file : sidecar_file' \in Flipped(i)
      BY <2>2
    <3>2. PICK c : /\ sidecar_file' = [sidecar_file EXCEPT ![i] = c]
                   /\ c \in CASE i < 4            -> Tags
                              [] i = 4            -> 0 .. MaxRecipe + MaxPayload + 1
                              [] i = ChecksumCell -> {<<>>}
                              [] OTHER            -> Bytes
      BY <3>1, Zenon DEF Flipped
    <3>3. i \in 1 .. Len(sidecar_file)
      BY <1>2
    <3>4. IF i = 5 THEN c = <<>> ELSE c \in Nat
      BY <3>2, <3>3, EnvelopeAssumption, CellsAssumption DEF ChecksumCell
    <3>5. /\ sidecar_file' \in Seq(C) /\ Len(sidecar_file') = Len(sidecar_file)
          /\ sidecar_file'[i] = c
          /\ \A j \in 1 .. Len(sidecar_file) : j # i => sidecar_file'[j] = sidecar_file[j]
      BY <1>2, <3>2, <3>3, <3>4
    <3> QED  BY <1>2, <3>3, <3>4, <3>5
  <2> QED  BY <2>1, <2>2 DEF SpoilSidecar
<1> QED  BY <1>1, <1>3 DEF EnvelopeInv, HeaderCells, ChecksumCell, crc

LEMMA EnvelopeNext == EnvelopeInv /\ [ENext]_<<eVars, damage>> => EnvelopeInv'
<1> SUFFICES ASSUME EnvelopeInv, [ENext]_<<eVars, damage>> PROVE EnvelopeInv'
  OBVIOUS
<1>1. CASE SpoilSidecar
  BY <1>1, SpoilSidecarInv
<1>2. CASE PersistAgain
  <2>1. /\ UNCHANGED <<tags, payload>> /\ damage' = 0
        /\ sidecar_file' = Whole /\ Whole' = Whole
    BY <1>2 DEF PersistAgain, Whole
  <2>2. tags \in Expectation /\ payload \in Strings(MaxPayload)
    BY DEF EnvelopeInv
  <2>3. Crc(Whole)' = Crc(Whole)
    BY <2>1 DEF Whole
  <2> QED  BY <2>1, <2>2, <2>3, WholeFits DEF EnvelopeInv
<1>3. CASE UNCHANGED <<eVars, damage>>
  BY <1>3 DEF EnvelopeInv, eVars, Whole
<1> QED  BY <1>1, <1>2, <1>3 DEF ENext

LEMMA EnvelopeInvariant == ESpec => []EnvelopeInv
BY EnvelopeInit, EnvelopeNext, PTL DEF ESpec

\* A checksum that matches matches the writer's file only.
LEMMA CheckedIsWhole ==
  ASSUME EnvelopeInv, HeaderFits(sidecar_file),
         sidecar_file[ChecksumCell] = Crc(sidecar_file)
  PROVE  sidecar_file = Whole
<1> DEFINE C == Nat \cup {<<>>, Crc(Whole)}
<1>1. /\ sidecar_file \in Seq(C) /\ Whole \in Seq(C)
      /\ Len(sidecar_file) >= HeaderCells /\ Len(Whole) >= HeaderCells
      /\ Whole[ChecksumCell] = Crc(Whole)
      /\ sidecar_file[ChecksumCell] \in {<<>>, Crc(Whole)}
  BY WholeFits DEF EnvelopeInv, HeaderFits
<1> HIDE DEF C
<1>2. Len(Crc(sidecar_file)) = Len(sidecar_file) - 1
  BY <1>1, CrcCells
<1>3. Crc(sidecar_file) # <<>>
  BY <1>1, <1>2 DEF HeaderCells
<1> QED  BY <1>1, <1>3, CrcDetermines

LEMMA WholeParts ==
  ASSUME tags \in Expectation, payload \in Strings(MaxPayload)
  PROVE  /\ HeaderFits(Whole) /\ TagsMatch(tags, Whole) /\ RecipeFits(Whole)
         /\ Whole[4] = Len(tags.recipe)
         /\ SubSeq(Whole, HeaderCells + 1, RecipeEnd(Whole)) = tags.recipe
         /\ SubSeq(Whole, RecipeEnd(Whole) + 1, Len(Whole)) = payload
<1> DEFINE C == Nat \cup {<<>>, Crc(Whole)}
<1>1. payload \in Seq(Bytes) /\ tags.recipe \in Seq(Bytes)
  BY WholeFits
<1>2. PICK r \in Nat, p \in Nat : r = Len(tags.recipe) /\ p = Len(payload)
  BY <1>1
<1>3. /\ Len(Whole) = 5 + r + p
      /\ TagsMatch(tags, Whole)
      /\ Whole[4] = r
      /\ \A i \in 1 .. r : Whole[5 + i] = tags.recipe[i]
      /\ \A i \in 1 .. p : Whole[5 + r + i] = payload[i]
  BY <1>1, <1>2, EncodeCells DEF Whole, HeaderCells
<1>4. Whole \in Seq(C) /\ payload \in Seq(C) /\ tags.recipe \in Seq(C)
  <2>1. Bytes \subseteq C
    BY CellsAssumption
  <2> QED  BY <2>1, <1>1, WholeFits, SeqMonotonic
<1> HIDE DEF C
<1>5. SubSeq(Whole, 6, 5 + r) = tags.recipe
  <2> DEFINE part == SubSeq(Whole, 6, 5 + r)
  <2>1. /\ 6 \in 1 .. Len(Whole) + 1 /\ 5 + r \in 6 - 1 .. Len(Whole)
        /\ (5 + r) - (6 - 1) = r /\ 6 - 1 = 5
    BY <1>2, <1>3
  <2>2. part \in Seq(C)
    BY <1>4, <2>1, Sliced
  <2>3. Len(part) = r
    BY <1>4, <2>1, Sliced
  <2>4. \A i \in 1 .. r : part[i] = Whole[5 + i]
    BY <1>4, <2>1, Sliced
  <2> HIDE DEF part
  <2>5. part = tags.recipe
    BY <1>2, <1>3, <1>4, <2>2, <2>3, <2>4, SeqEqual
  <2> QED  BY <2>5 DEF part
<1>6. SubSeq(Whole, (5 + r) + 1, Len(Whole)) = payload
  <2> DEFINE m == (5 + r) + 1
             part == SubSeq(Whole, m, Len(Whole))
  <2>1. /\ m \in 1 .. Len(Whole) + 1 /\ Len(Whole) \in m - 1 .. Len(Whole)
        /\ Len(Whole) - (m - 1) = p /\ m - 1 = 5 + r
    <3>1. m \in Nat /\ m - 1 = 5 + r /\ Len(Whole) = (m - 1) + p
      BY <1>2, <1>3
    <3> QED  BY <1>2, <3>1
  <2> HIDE DEF m
  <2>2. part \in Seq(C)
    BY <1>4, <2>1, Sliced
  <2>3. Len(part) = p
    BY <1>4, <2>1, Sliced
  <2>4. \A i \in 1 .. p : part[i] = Whole[5 + r + i]
    BY <1>4, <2>1, Sliced
  <2> HIDE DEF part
  <2>5. part = payload
    BY <1>2, <1>3, <1>4, <2>2, <2>3, <2>4, SeqEqual
  <2> QED  BY <2>5 DEF part, m
<1>7. /\ Len(Whole) >= 5 /\ Len(Whole) >= 5 + r
  BY <1>2, <1>3
<1>8. HeaderCells + 1 = 6 /\ RecipeEnd(Whole) = 5 + r
  BY <1>3 DEF HeaderCells, RecipeEnd
<1> QED
  BY <1>2, <1>3, <1>5, <1>6, <1>7, <1>8 DEF HeaderFits, RecipeFits, HeaderCells

\* Corruption, wherever it is, is refused by decode, and so is a file that is
\* not what its reader expects; an untouched one is read by its writer
\* (sidecar_envelope_decode, sidecar_envelope_payload_info).
THEOREM EnvelopeAccepts == ESpec => []AcceptedIsIntact
<1>1. EnvelopeInv => AcceptedIsIntact
  <2> SUFFICES ASSUME EnvelopeInv PROVE AcceptedIsIntact
    OBVIOUS
  <2>1. tags \in Expectation /\ payload \in Strings(MaxPayload)
    BY DEF EnvelopeInv
  <2>2. ASSUME NEW e \in Expectation, Decode(e, sidecar_file).ok
        PROVE  e = tags /\ Decode(e, sidecar_file).value = payload
    <3>1. /\ HeaderFits(sidecar_file) /\ TagsMatch(e, sidecar_file)
          /\ sidecar_file[ChecksumCell] = Crc(sidecar_file)
          /\ SubSeq(sidecar_file, HeaderCells + 1, RecipeEnd(sidecar_file)) = e.recipe
          /\ Decode(e, sidecar_file).value =
               SubSeq(sidecar_file, RecipeEnd(sidecar_file) + 1, Len(sidecar_file))
      BY <2>2, Zenon DEF Decode, Refused, Ok
    <3>2. sidecar_file = Whole
      BY <3>1, CheckedIsWhole
    <3>3. e.recipe = tags.recipe /\ Decode(e, sidecar_file).value = payload
      BY <2>1, <3>1, <3>2, WholeParts
    <3>4. e.magic = tags.magic /\ e.version = tags.version /\ e.segment_id = tags.segment_id
      BY <2>1, <3>1, <3>2, WholeParts DEF TagsMatch
    <3>5. e = tags
      BY <2>1, <3>3, <3>4 DEF Expectation
    <3> QED  BY <3>3, <3>5
  <2>3. ASSUME damage = 0
        PROVE  Decode(tags, sidecar_file).ok /\ PayloadInfo(tags, sidecar_file).ok
    <3>1. sidecar_file = Whole /\ Whole[ChecksumCell] = Crc(Whole)
      BY <2>1, <2>3, WholeFits DEF EnvelopeInv
    <3>2. Decode(tags, Whole).ok
      BY <2>1, <3>1, WholeParts DEF Decode, Ok
    <3>3. PayloadInfo(tags, Whole).ok
      BY <2>1, WholeParts DEF PayloadInfo, RecipeEnd, Ok
    <3> QED  BY <3>1, <3>2, <3>3
  <2> QED  BY <2>2, <2>3 DEF AcceptedIsIntact
<1> QED  BY <1>1, EnvelopeInvariant, PTL

\* The lazy reader finds the payload where decode does, and differs in the
\* checksum only, which its caller has to compare.
THEOREM EnvelopeReadersAgree == ESpec => []LazyAgrees
<1>1. EnvelopeInv => LazyAgrees
  <2> SUFFICES ASSUME EnvelopeInv, NEW e \in Expectation
               PROVE  LET lazy == PayloadInfo(e, sidecar_file)
                          full == Decode(e, sidecar_file)
                      IN  /\ full.ok <=> lazy.ok /\ lazy.value.crc = Crc(sidecar_file)
                          /\ full.ok => full.value =
                               SubSeq(sidecar_file, lazy.value.offset + 1,
                                      lazy.value.offset + lazy.value.len)
                          /\ lazy.ok => lazy.value.offset + lazy.value.len
                                           = Len(sidecar_file)
    BY DEF LazyAgrees
  <2> DEFINE lazy == PayloadInfo(e, sidecar_file)
             full == Decode(e, sidecar_file)
             fits == /\ HeaderFits(sidecar_file)
                     /\ TagsMatch(e, sidecar_file)
                     /\ RecipeFits(sidecar_file)
             end == RecipeEnd(sidecar_file)
             n == Len(sidecar_file)
             recipe == SubSeq(sidecar_file, 6, end)
             C == Nat \cup {<<>>, Crc(Whole)}
  <2>1. full.ok <=> fits /\ sidecar_file[5] = Crc(sidecar_file) /\ recipe = e.recipe
    BY DEF Decode, Ok, Refused, HeaderCells, ChecksumCell
  <2>2. full.ok => full.value = SubSeq(sidecar_file, end + 1, n)
    BY DEF Decode, Ok, Refused
  <2>3. lazy.ok <=> /\ fits /\ sidecar_file[4] = Len(e.recipe)
                    /\ SubSeq(sidecar_file, 6, 5 + Len(e.recipe)) = e.recipe
    BY DEF PayloadInfo, Ok, Refused, HeaderCells
  <2>4. lazy.ok => /\ lazy.value.offset = end
                   /\ lazy.value.len = n - end
                   /\ lazy.value.crc = sidecar_file[5]
    BY DEF PayloadInfo, Ok, Refused, ChecksumCell
  <2> HIDE DEF lazy, full
  <2>5. sidecar_file \in Seq(C) /\ n \in Nat
    BY DEF EnvelopeInv
  <2>6. ASSUME fits
        PROVE  /\ sidecar_file[4] \in Nat /\ end = 5 + sidecar_file[4] /\ end \in Nat
               /\ n >= end /\ Len(recipe) = sidecar_file[4]
    <3>1. n >= 5
      BY <2>6 DEF HeaderFits, HeaderCells
    <3>2. sidecar_file[4] \in Nat
      BY <2>5, <3>1 DEF EnvelopeInv
    <3>3. end = 5 + sidecar_file[4] /\ n >= end
      BY <2>6 DEF RecipeFits, RecipeEnd, HeaderCells
    <3>4. /\ 6 \in 1 .. Len(sidecar_file) + 1 /\ end \in 6 - 1 .. Len(sidecar_file)
          /\ end - (6 - 1) = sidecar_file[4]
      BY <2>5, <3>1, <3>2, <3>3
    <3> HIDE DEF C, end
    <3>5. Len(SubSeq(sidecar_file, 6, end)) = sidecar_file[4]
      BY <2>5, <3>4, Sliced
    <3> QED  BY <3>2, <3>3, <3>5
  <2>7. full.ok <=> lazy.ok /\ lazy.value.crc = Crc(sidecar_file)
    <3>1. CASE fits
      <4>1. recipe = e.recipe <=>
              /\ sidecar_file[4] = Len(e.recipe)
              /\ SubSeq(sidecar_file, 6, 5 + Len(e.recipe)) = e.recipe
        BY <2>6, <3>1
      <4> QED  BY <2>1, <2>3, <2>4, <4>1, <3>1
    <3>2. CASE ~fits
      BY <2>1, <2>3, <3>2
    <3> QED  BY <3>1, <3>2
  <2>8. lazy.ok => lazy.value.offset + lazy.value.len = n
    <3> SUFFICES ASSUME lazy.ok PROVE end + (n - end) = n
      BY <2>4
    <3> QED  BY <2>3, <2>5, <2>6
  <2>9. full.ok => full.value = SubSeq(sidecar_file, lazy.value.offset + 1,
                                       lazy.value.offset + lazy.value.len)
    BY <2>2, <2>4, <2>7, <2>8, Zenon
  <2> QED  BY <2>7, <2>8, <2>9 DEF lazy, full
<1> QED  BY <1>1, EnvelopeInvariant, PTL

-----------------------------------------------------------------------------
(* The payload of a segment file.                                          *)

\* A header's field is wider than a byte, and none of a payload's bytes is taken
\* for the magic number.  Else a version 1 payload with a version 2 header in it
\* would verify as a shorter one, once the disk has made the version a 2.
FieldsAreNoBytes == Magic \notin Bytes

LEMMA CoveredWithHeader ==
  ASSUME NEW x, NEW y, NEW r \in Seq(Bytes)
  PROVE  LET c == Covered(2, x, y, r)
         IN  /\ c[1] = Magic /\ c[3] = x /\ c[4] = y
             /\ Len(c) = 4 + Len(r) /\ \A i \in 1 .. Len(r) : c[4 + i] = r[i]
<1> DEFINE S == Bytes \cup {Magic, 2, x, y}
           h == <<Magic, 2, x, y>>
           c == h \o r
<1>1. h \in Seq(S) /\ Len(h) = 4 /\ h[1] = Magic /\ h[3] = x /\ h[4] = y
  OBVIOUS
<1>2. r \in Seq(S) /\ h \in Seq(S)
  BY <1>1, SeqMonotonic
<1> HIDE DEF S, h
<1>3. Len(c) = Len(h) + Len(r)
  BY <1>2, Joined
<1>4. \A i \in 1 .. Len(h) : c[i] = h[i]
  BY <1>2, Joined
<1>5. \A i \in 1 .. Len(r) : c[Len(h) + i] = r[i]
  BY <1>2, Joined
<1>6. c = Covered(2, x, y, r)
  BY DEF Covered, h
<1> HIDE DEF c
<1>7. c[1] = Magic /\ c[3] = x /\ c[4] = y
  BY <1>1, <1>4
<1>8. Len(c) = 4 + Len(r) /\ \A i \in 1 .. Len(r) : c[4 + i] = r[i]
  BY <1>1, <1>3, <1>5, Zenon
<1> QED  BY <1>6, <1>7, <1>8, Zenon

\* The checksum tells payloads apart and, in version 2, headers, by its version.
LEMMA CoveredDetermines ==
  ASSUME FieldsAreNoBytes,
         NEW v \in Versions, NEW a, NEW m, NEW p \in Seq(Bytes),
         NEW w \in Versions, NEW b, NEW n, NEW q \in Seq(Bytes),
         Covered(v, a, m, p) = Covered(w, b, n, q)
  PROVE  v = w /\ p = q /\ (v = 2 => a = b /\ m = n)
<1>1. \A x, y : \A r \in Seq(Bytes) :
        LET c == Covered(2, x, y, r)
        IN  /\ c[1] = Magic /\ c[3] = x /\ c[4] = y
            /\ Len(c) = 4 + Len(r) /\ \A i \in 1 .. Len(r) : c[4 + i] = r[i]
  BY CoveredWithHeader
<1>2. \A x, y : \A r \in Seq(Bytes) : Covered(1, x, y, r) = r
  BY DEF Covered
<1>3. ASSUME NEW x, NEW y, NEW r \in Seq(Bytes), NEW s \in Seq(Bytes),
             Covered(2, x, y, r) = s
      PROVE  FALSE
  <2>1. s[1] = Magic /\ Len(s) = 4 + Len(r)
    BY <1>1, <1>3
  <2>2. 1 \in 1 .. Len(s)
    BY <2>1
  <2> QED  BY <2>1, <2>2 DEF FieldsAreNoBytes
<1>4. CASE v = 1 /\ w = 1
  BY <1>2, <1>4
<1>5. CASE v = 2 /\ w = 2
  <2>1. a = b /\ m = n
    BY <1>1, <1>5
  <2>2. Len(p) = Len(q)
    <3>1. 4 + Len(p) = 4 + Len(q)
      BY <1>1, <1>5
    <3> QED  BY <3>1
  <2>3. \A i \in 1 .. Len(p) : p[i] = q[i]
    BY <1>1, <1>5, <2>2
  <2> QED  BY <1>5, <2>1, <2>2, <2>3, SeqEqual
<1>6. ~(v = 1 /\ w = 2) /\ ~(v = 2 /\ w = 1)
  BY <1>2, <1>3
<1> QED  BY <1>4, <1>5, <1>6 DEF Versions

\* What a file that was just written consists of.
MadeOf(file, v, a, p) ==
  /\ file \in Seq(Nat \cup AppliedIds \cup {file[ChecksumCell]})
  /\ Len(file) = HeaderCells + Len(p)
  /\ file[1] = Magic /\ file[2] = v /\ file[3] = a /\ file[4] = Len(p)
  /\ file[ChecksumCell] = Covered(v, a, Len(p), p)
  /\ \A i \in 1 .. Len(p) : file[HeaderCells + i] = p[i]
  /\ SubSeq(file, HeaderCells + 1, Len(file)) = p

LEMMA WholeFileCells ==
  ASSUME NEW v \in Versions, NEW a \in AppliedIds, NEW p \in Seq(Bytes)
  PROVE  MadeOf(WholeFile(v, a, p), v, a, p)
<1> DEFINE crc == Covered(v, a, Len(p), p)
           h == <<Magic, v, a, Len(p), crc>>
           S == Nat \cup AppliedIds \cup {crc}
           file == WholeFile(v, a, p)
<1>1. PICK k \in Nat : k = Len(p)
  OBVIOUS
<1> HIDE DEF crc
<1>2. h \in Seq(S)
  BY <1>1 DEF Magic, Versions
<1>3. /\ Len(h) = 5 /\ h[1] = Magic /\ h[2] = v /\ h[3] = a /\ h[4] = Len(p)
      /\ h[5] = crc
  OBVIOUS
<1>4. p \in Seq(S)
  <2>1. Bytes \subseteq S
    BY CellsAssumption
  <2> QED  BY <2>1, SeqMonotonic
<1>5. file = h \o p
  BY DEF WholeFile, crc
<1> HIDE DEF file, h, S
<1>6. file \in Seq(S)
  BY <1>2, <1>4, <1>5, Joined
<1>7. Len(file) = Len(h) + Len(p)
  BY <1>2, <1>4, <1>5, Joined
<1>8. \A i \in 1 .. Len(h) : file[i] = h[i]
  BY <1>2, <1>4, <1>5, Joined
<1>9. \A i \in 1 .. Len(p) : file[Len(h) + i] = p[i]
  BY <1>2, <1>4, <1>5, Joined
<1>10. /\ Len(file) = 5 + k /\ \A i \in 1 .. 5 : file[i] = h[i]
       /\ \A i \in 1 .. k : file[5 + i] = p[i]
  BY <1>1, <1>3, <1>7, <1>8, <1>9, Zenon
<1>11. SubSeq(file, 6, 5 + k) = p
  <2> DEFINE part == SubSeq(file, 6, 5 + k)
  <2>1. /\ 6 \in 1 .. Len(file) + 1 /\ 5 + k \in 6 - 1 .. Len(file)
        /\ (5 + k) - (6 - 1) = k /\ 6 - 1 = 5
    BY <1>10
  <2>2. part \in Seq(S)
    BY <1>6, <2>1, Sliced
  <2>3. Len(part) = k
    BY <1>6, <2>1, Sliced
  <2>4. \A i \in 1 .. k : part[i] = file[5 + i]
    BY <1>6, <2>1, Sliced
  <2> HIDE DEF part
  <2>5. part = p
    BY <1>1, <1>4, <1>10, <2>2, <2>3, <2>4, SeqEqual
  <2> QED  BY <2>5 DEF part
<1>12. /\ file[1] = Magic /\ file[2] = v /\ file[3] = a /\ file[4] = Len(p)
       /\ file[5] = crc
  BY <1>3, <1>10
<1> QED
  BY <1>1, <1>6, <1>10, <1>11, <1>12 DEF MadeOf, file, S, crc, HeaderCells, ChecksumCell

\* Whatever the disk did to a file, what follows the header is bytes, and the
\* checksum is the writer's or wrong.
CellsOf(f, checksum) ==
  /\ f \in Seq(Nat \cup AppliedIds \cup {<<None>>, checksum})
  /\ \A i \in 1 .. Len(f) :
       /\ i = 4 => f[i] \in Nat
       /\ i = ChecksumCell => f[i] \in {<<None>>, checksum}
       /\ i > HeaderCells => f[i] \in Bytes

WrittenWhole(s) ==
  /\ Written(s) \in Seq(Bytes)
  /\ intact[s][2] \in Versions /\ intact[s][3] \in AppliedIds
  /\ intact[s] = WholeFile(intact[s][2], intact[s][3], Written(s))

FileInv(s) ==
  segment_file[s] # None => CellsOf(segment_file[s], intact[s][ChecksumCell])

\* What the consumers keep is what was written.
KeptInv ==
  /\ ok => asked \in Segments
  /\ BufferHoldsPayload
  /\ info # None =>
       /\ info_of \in Segments
       /\ info = [offset |-> HeaderCells, len |-> Len(Written(info_of)),
                  checksum |-> Written(info_of)]
       /\ source = Written(info_of)

PayloadInv ==
  /\ damage \in Nat
  /\ DOMAIN segment_file = Segments
  /\ \A s \in Segments : WrittenWhole(s) /\ FileInv(s)
  /\ KeptInv

LEMMA PayloadInit == PInit => PayloadInv
<1> SUFFICES ASSUME PInit PROVE PayloadInv
  OBVIOUS
<1>0. segment_file = intact /\ DOMAIN segment_file = Segments
  BY DEF PInit
<1>1. ASSUME NEW s \in Segments
      PROVE  WrittenWhole(s) /\ FileInv(s)
  <2> DEFINE whole == intact[s]
  <2>1. PICK v \in Versions, a \in AppliedIds, p \in Strings(MaxLen) :
          whole = WholeFile(v, a, p)
    <3>1. whole \in {WholeFile(v, a, p) : v \in Versions, a \in AppliedIds,
                                          p \in Strings(MaxLen)}
      BY DEF PInit
    <3> HIDE DEF whole
    <3> QED  BY <3>1
  <2>2. p \in Seq(Bytes)
    BY PayloadAssumption, StringsAreSeqs
  <2>3. MadeOf(whole, v, a, p)
    BY <2>1, <2>2, WholeFileCells, Zenon
  <2>4. Written(s) = p
    BY <2>3, Zenon DEF MadeOf, Written
  <2> HIDE DEF whole
  <2>5. /\ whole \in Seq(Nat \cup AppliedIds \cup {whole[ChecksumCell]})
        /\ Len(whole) = HeaderCells + Len(p)
        /\ whole[2] = v /\ whole[3] = a /\ whole[4] = Len(p)
        /\ \A i \in 1 .. Len(p) : whole[HeaderCells + i] = p[i]
    BY <2>3 DEF MadeOf
  <2>6. WrittenWhole(s)
    BY <2>1, <2>2, <2>4, <2>5 DEF WrittenWhole, whole
  <2>7. CellsOf(whole, whole[ChecksumCell])
    <3>1. whole \in Seq(Nat \cup AppliedIds \cup {<<None>>, whole[ChecksumCell]})
      BY <2>5, SeqMonotonic
    <3>2. ASSUME NEW i \in 1 .. Len(whole), i > HeaderCells
          PROVE  whole[i] \in Bytes
      <4>1. i - 5 \in 1 .. Len(p) /\ 5 + (i - 5) = i
        BY <2>2, <2>5, <3>2 DEF HeaderCells
      <4>2. whole[i] = p[i - 5]
        BY <2>5, <4>1 DEF HeaderCells
      <4> QED  BY <2>2, <4>1, <4>2
    <3>3. whole[4] \in Nat
      BY <2>2, <2>5
    <3> QED  BY <3>1, <3>2, <3>3 DEF CellsOf
  <2> QED  BY <1>0, <2>6, <2>7 DEF FileInv, whole
<1>2. KeptInv
  BY DEF KeptInv, BufferHoldsPayload, PInit
<1>3. damage \in Nat
  BY DEF PInit
<1> QED  BY <1>0, <1>1, <1>2, <1>3 DEF PayloadInv

\* The disk leaves cells of these kinds.
LEMMA SpoiledCells ==
  ASSUME NEW crc, NEW f, CellsOf(f, crc), NEW g \in Spoiled(f)
  PROVE  CellsOf(g, crc)
<1> DEFINE S == Nat \cup AppliedIds \cup {<<None>>, crc}
           Typed(i, c) == /\ i = 4 => c \in Nat
                          /\ i = ChecksumCell => c \in {<<None>>, crc}
                          /\ i > HeaderCells => c \in Bytes
<1>1. g \in Shortened(f) \cup Lengthened(f) \/ \E i \in DOMAIN f : g \in Changed(f, i)
  BY DEF Spoiled
<1>2. f \in Seq(S) /\ \A i \in 1 .. Len(f) : Typed(i, f[i])
  BY DEF CellsOf
<1>3. g \in Seq(S) /\ \A i \in 1 .. Len(g) : Typed(i, g[i])
  <2>1. CASE g \in Shortened(f) \cup Lengthened(f)
    <3>1. Bytes \subseteq S
      BY CellsAssumption
    <3> HIDE DEF S
    <3>2. /\ g \in Seq(S)
          /\ \A i \in 1 .. Len(g) : \/ i <= Len(f) /\ g[i] = f[i]
                                    \/ i > HeaderCells /\ g[i] \in Bytes
      BY <1>2, <2>1, <3>1, CutOrGrown
    <3>3. ASSUME NEW i \in 1 .. Len(g)
          PROVE  Typed(i, g[i])
      <4>1. CASE i <= Len(f) /\ g[i] = f[i]
        <5>1. i \in 1 .. Len(f)
          BY <1>2, <4>1
        <5> QED  BY <1>2, <4>1, <5>1
      <4>2. CASE i > HeaderCells /\ g[i] \in Bytes
        BY <4>2 DEF HeaderCells, ChecksumCell
      <4> QED  BY <3>2, <4>1, <4>2
    <3> QED  BY <3>2, <3>3
  <2>2. CASE \E i \in DOMAIN f : g \in Changed(f, i)
    <3>1. PICK i \in DOMAIN f : g \in Changed(f, i)
      BY <2>2
    <3>2. PICK c : /\ g = [f EXCEPT ![i] = c]
                   /\ c \in CASE i = 3            -> AppliedIds
                              [] i < 5            -> 0 .. MaxLen + 1
                              [] i = ChecksumCell -> {<<None>>}
                              [] OTHER            -> Bytes
      BY <3>1, Zenon DEF Changed
    <3>3. i \in 1 .. Len(f)
      BY <1>2
    <3>4. c \in S /\ Typed(i, c)
      BY <3>2, <3>3, PayloadAssumption, CellsAssumption DEF ChecksumCell, HeaderCells
    <3> HIDE DEF S, Typed
    <3>5. /\ g \in Seq(S) /\ Len(g) = Len(f) /\ g[i] = c
          /\ \A j \in 1 .. Len(f) : j # i => g[j] = f[j]
      BY <1>2, <3>2, <3>3, <3>4
    <3> QED  BY <1>2, <3>4, <3>5
  <2> QED  BY <1>1, <2>1, <2>2
<1> QED  BY <1>3 DEF CellsOf

\* The invariant says nothing of a file that is gone, and of a damaged one that
\* its cells are of these kinds.
LEMMA FileChangedInv ==
  ASSUME PayloadInv, NEW s \in Segments, NEW g,
         g = None \/ CellsOf(g, intact[s][ChecksumCell]),
         segment_file' = [segment_file EXCEPT ![s] = g],
         UNCHANGED <<intact, Consumer>>, damage' \in Nat
  PROVE  PayloadInv'
<1>1. intact' = intact /\ UNCHANGED <<buf, asked, ok, info, info_of, source>>
  BY DEF Consumer
<1>2. \A t : Written(t)' = Written(t)
  BY <1>1 DEF Written
<1>3. KeptInv'
  BY <1>1, <1>2 DEF PayloadInv, KeptInv, BufferHoldsPayload
<1>4. DOMAIN segment_file' = Segments
  BY DEF PayloadInv
<1>5. ASSUME NEW t \in Segments
      PROVE  WrittenWhole(t)' /\ FileInv(t)'
  <2>1. WrittenWhole(t) /\ FileInv(t)
    BY DEF PayloadInv
  <2>2. WrittenWhole(t)'
    BY <1>1, <1>2, <2>1 DEF WrittenWhole
  <2>3. segment_file'[t] = IF t = s THEN g ELSE segment_file[t]
    BY DEF PayloadInv
  <2>4. FileInv(t)'
    BY <1>1, <2>1, <2>3 DEF FileInv
  <2> QED  BY <2>2, <2>4
<1> QED  BY <1>3, <1>4, <1>5 DEF PayloadInv

\* A file that verifies has the payload and, in version 2, the header of the
\* whole file it was.
LEMMA VerifiedCells ==
  ASSUME FieldsAreNoBytes, NEW whole, NEW written \in Seq(Bytes),
         whole[2] \in Versions, MadeOf(whole, whole[2], whole[3], written),
         NEW f, CellsOf(f, whole[ChecksumCell]), Read(f).ok
  PROVE  /\ Read(f).value = written
         /\ Info(f) = [offset |-> HeaderCells, len |-> Len(written), checksum |-> written]
         /\ whole[2] = 2 => SubSeq(f, 1, HeaderCells) = SubSeq(whole, 1, HeaderCells)
<1> DEFINE S == Nat \cup AppliedIds \cup {<<None>>, whole[ChecksumCell]}
           n == IF Len(f) < HeaderCells + f[4] THEN Len(f) ELSE HeaderCells + f[4]
<1>1. HeaderParses(f) /\ Verifies(f) /\ Read(f).value = Taken(f)
  BY DEF Read, Refused, Ok
<1>2. /\ f \in Seq(S) /\ Len(f) >= 5 /\ f[1] = Magic /\ f[2] \in Versions /\ f[4] \in Nat
      /\ f[5] \in {<<None>>, whole[5]}
      /\ \A i \in 1 .. Len(f) : i > 5 => f[i] \in Bytes
  <2>1. f \in Seq(S) /\ Len(f) >= 5 /\ f[1] = Magic /\ f[2] \in Versions
    BY <1>1 DEF HeaderParses, HeaderCells, CellsOf
  <2>2. 4 \in 1 .. Len(f) /\ 5 \in 1 .. Len(f)
    BY <2>1
  <2> QED  BY <2>1, <2>2 DEF CellsOf, HeaderCells, ChecksumCell
<1>3. Taken(f) \in Seq(Bytes)
  <2>1. n \in Nat /\ n <= Len(f)
    BY <1>2 DEF HeaderCells
  <2>2. \A i \in 6 .. n : f[i] \in Bytes
    BY <1>2, <2>1
  <2>3. Taken(f) = SubSeq(f, 6, n)
    BY DEF Taken, HeaderCells
  <2> HIDE DEF n
  <2> QED  BY <2>1, <2>2, <2>3, SubSeqProperties
<1>4. Len(Taken(f)) = f[4] /\ f[5] = Covered(f[2], f[3], f[4], Taken(f))
  BY <1>1 DEF Verifies, ChecksumCell
<1>5. f[5] # <<None>>
  <2>1. CASE f[2] = 1
    <3>1. f[5] \in Seq(Bytes)
      BY <1>3, <1>4, <2>1 DEF Covered
    <3>2. <<None>> \notin Seq(Bytes)
      <4>1. <<None>>[1] = None /\ Len(<<None>>) = 1
        OBVIOUS
      <4> QED  BY <4>1, PayloadAssumption
    <3> QED  BY <3>1, <3>2
  <2>2. CASE f[2] = 2
    <3>1. Len(f[5]) = 4 + Len(Taken(f))
      BY <1>3, <1>4, <2>2, CoveredWithHeader
    <3>2. Len(<<None>>) = 1
      OBVIOUS
    <3>3. Len(f[5]) # 1
      BY <1>3, <3>1
    <3> QED  BY <3>2, <3>3, Zenon
  <2> QED  BY <1>2, <2>1, <2>2 DEF Versions
<1>6. Covered(f[2], f[3], f[4], Taken(f)) =
        Covered(whole[2], whole[3], Len(written), written)
  BY <1>2, <1>4, <1>5 DEF MadeOf, ChecksumCell
<1>7. /\ f[2] = whole[2] /\ Taken(f) = written
      /\ f[2] = 2 => f[3] = whole[3] /\ f[4] = Len(written)
  BY <1>2, <1>3, <1>6, CoveredDetermines
<1>8. Info(f) = [offset |-> HeaderCells, len |-> Len(written), checksum |-> written]
  BY <1>4, <1>7 DEF Info
<1>9. ASSUME whole[2] = 2
       PROVE  SubSeq(f, 1, HeaderCells) = SubSeq(whole, 1, HeaderCells)
  <2>1. f[1] = whole[1] /\ f[2] = whole[2] /\ f[3] = whole[3] /\ f[4] = whole[4]
    BY <1>2, <1>7, <1>9 DEF MadeOf
  <2>2. f[5] = whole[5]
    BY <1>2, <1>5
  <2>3. Len(whole) >= 5 /\ whole \in Seq(S)
    <3>1. whole \in Seq(Nat \cup AppliedIds \cup {whole[ChecksumCell]})
      BY DEF MadeOf
    <3>2. whole \in Seq(S)
      BY <3>1, SeqMonotonic
    <3>3. Len(whole) = 5 + Len(written) /\ Len(written) \in Nat
      BY DEF MadeOf, HeaderCells
    <3> QED  BY <3>2, <3>3
  <2> DEFINE s == SubSeq(f, 1, 5)
             t == SubSeq(whole, 1, 5)
  <2> HIDE DEF S
  <2>4. 1 - 1 = 0 /\ 5 - 0 = 5 /\ \A i \in 1 .. 5 : 0 + i = i
    OBVIOUS
  <2>5. s \in Seq(S) /\ Len(s) = 5 /\ \A i \in 1 .. 5 : s[i] = f[i]
    BY <1>2, <2>4, Sliced
  <2>6. t \in Seq(S) /\ Len(t) = 5 /\ \A i \in 1 .. 5 : t[i] = whole[i]
    BY <2>3, <2>4, Sliced
  <2>7. \A i \in 1 .. 5 : f[i] = whole[i]
    BY <2>1, <2>2
  <2> HIDE DEF s, t
  <2>8. s = t
    BY <2>5, <2>6, <2>7, SeqEqual
  <2> QED  BY <2>8 DEF s, t, HeaderCells
<1> QED  BY <1>1, <1>7, <1>8, <1>9

LEMMA PayloadRead ==
  ASSUME FieldsAreNoBytes, PayloadInv, NEW s \in Segments, Read(segment_file[s]).ok
  PROVE  /\ segment_file[s] # None
         /\ Read(segment_file[s]).value = Written(s)
         /\ Info(segment_file[s]) =
              [offset |-> HeaderCells, len |-> Len(Written(s)), checksum |-> Written(s)]
         /\ intact[s][2] = 2 =>
              SubSeq(segment_file[s], 1, HeaderCells) = SubSeq(intact[s], 1, HeaderCells)
<1>1. WrittenWhole(s) /\ FileInv(s)
  BY DEF PayloadInv
<1>2. segment_file[s] # None
  BY DEF Read, HeaderParses, Refused
<1>3. CellsOf(segment_file[s], intact[s][ChecksumCell])
  BY <1>1, <1>2 DEF FileInv
<1>4. /\ Written(s) \in Seq(Bytes) /\ intact[s][2] \in Versions
      /\ MadeOf(intact[s], intact[s][2], intact[s][3], Written(s))
  BY <1>1, WholeFileCells DEF WrittenWhole
<1> DEFINE f == segment_file[s]
           whole == intact[s]
           written == Written(s)
<1>5. /\ written \in Seq(Bytes) /\ whole[2] \in Versions
      /\ MadeOf(whole, whole[2], whole[3], written)
      /\ CellsOf(f, whole[ChecksumCell]) /\ Read(f).ok
  BY <1>3, <1>4
<1> HIDE DEF f, whole, written
<1>6. /\ Read(f).value = written
      /\ Info(f) = [offset |-> HeaderCells, len |-> Len(written), checksum |-> written]
      /\ whole[2] = 2 => SubSeq(f, 1, HeaderCells) = SubSeq(whole, 1, HeaderCells)
  BY <1>5, VerifiedCells
<1> QED  BY <1>2, <1>6 DEF f, whole, written

LEMMA PayloadNext ==
  ASSUME FieldsAreNoBytes, PayloadInv, [PNext]_<<pVars, damage>>
  PROVE  PayloadInv'
<1>0. /\ damage \in Nat /\ DOMAIN segment_file = Segments /\ KeptInv
      /\ \A s \in Segments : WrittenWhole(s) /\ FileInv(s)
  BY DEF PayloadInv
<1>1. ASSUME NEW s \in Segments, SpoilSegment(s)
      PROVE  PayloadInv'
  <2>1. PICK g \in Spoiled(segment_file[s]) :
          segment_file' = [segment_file EXCEPT ![s] = g]
    BY <1>1 DEF SpoilSegment
  <2>2. /\ segment_file[s] # None /\ damage' = damage + 1
        /\ UNCHANGED <<intact, Consumer>>
    BY <1>1 DEF SpoilSegment
  <2>3. CellsOf(segment_file[s], intact[s][ChecksumCell])
    BY <1>0, <2>2 DEF FileInv
  <2>4. CellsOf(g, intact[s][ChecksumCell])
    BY <2>3, SpoiledCells
  <2>5. damage' \in Nat /\ UNCHANGED <<intact, Consumer>>
    BY <1>0, <2>2
  <2> QED  BY <2>1, <2>4, <2>5, FileChangedInv
<1>2. ASSUME NEW s \in Segments, CollectSegment(s)
      PROVE  PayloadInv'
  BY <1>0, <1>2, FileChangedInv DEF CollectSegment
<1>3. ASSUME intact' = intact, segment_file' = segment_file, damage' = damage, KeptInv'
      PROVE  PayloadInv'
  <2>1. \A t : Written(t)' = Written(t)
    BY <1>3 DEF Written
  <2>2. \A t \in Segments : WrittenWhole(t)' /\ FileInv(t)'
    BY <1>0, <1>3, <2>1 DEF WrittenWhole, FileInv
  <2> QED  BY <1>0, <1>3, <2>2 DEF PayloadInv
<1>4. ASSUME NEW s \in Segments, ReadInto(s)
      PROVE  PayloadInv'
  <2>1. UNCHANGED <<segment_file, intact, damage, info, info_of, source>> /\ asked' = s
    BY <1>4 DEF ReadInto
  <2>2. \A t : Written(t)' = Written(t)
    BY <2>1 DEF Written
  <2>3. CASE Read(segment_file[s]).ok
    <3>1. Read(segment_file[s]).value = Written(s)
      BY <2>3, PayloadRead
    <3>2. ok' /\ buf' = Written(s)
      BY <1>4, <2>3, <3>1 DEF ReadInto
    <3> QED  BY <1>0, <1>3, <2>1, <2>2, <3>2 DEF KeptInv, BufferHoldsPayload
  <2>4. CASE ~Read(segment_file[s]).ok
    <3>1. ~ok' /\ buf' \in {<<>>, buf}
      BY <1>4, <2>4 DEF ReadInto
    <3>2. buf \in {<<>>} \cup {Written(t) : t \in Segments}
      BY <1>0 DEF KeptInv, BufferHoldsPayload
    <3> QED  BY <1>0, <1>3, <2>1, <2>2, <3>1, <3>2 DEF KeptInv, BufferHoldsPayload
  <2> QED  BY <2>3, <2>4
<1>5. ASSUME NEW s \in Segments, ReadInfo(s)
      PROVE  PayloadInv'
  <2>1. /\ UNCHANGED <<segment_file, intact, damage, buf, asked, ok>>
        /\ Read(segment_file[s]).ok /\ info_of' = s
        /\ info' = Info(segment_file[s]) /\ source' = Read(segment_file[s]).value
    BY <1>5 DEF ReadInfo
  <2>2. \A t : Written(t)' = Written(t)
    BY <2>1 DEF Written
  <2>3. /\ source' = Written(s)
        /\ info' = [offset |-> HeaderCells, len |-> Len(Written(s)),
                    checksum |-> Written(s)]
    BY <2>1, PayloadRead
  <2> QED  BY <1>0, <1>3, <2>1, <2>2, <2>3 DEF KeptInv, BufferHoldsPayload
<1>6. CASE UNCHANGED <<pVars, damage>>
  <2>1. /\ UNCHANGED <<segment_file, intact, damage>>
        /\ UNCHANGED <<buf, asked, ok, info, info_of, source>>
    BY <1>6 DEF pVars
  <2>2. \A t : Written(t)' = Written(t)
    BY <2>1 DEF Written
  <2> QED  BY <1>0, <1>3, <2>1, <2>2 DEF KeptInv, BufferHoldsPayload
<1> QED  BY <1>1, <1>2, <1>4, <1>5, <1>6 DEF PNext

LEMMA PayloadInvariant == FieldsAreNoBytes => (PSpec => []PayloadInv)
<1> SUFFICES ASSUME FieldsAreNoBytes PROVE PSpec => []PayloadInv
  OBVIOUS
<1>1. PayloadInv /\ [PNext]_<<pVars, damage>> => PayloadInv'
  BY PayloadNext
<1> QED  BY <1>1, PayloadInit, PTL DEF PSpec

\* A payload that is read (read_segment_payload_into) is the one that was
\* written, whichever cells of the file the disk has changed.
THEOREM PayloadReadAsWritten == FieldsAreNoBytes => (PSpec => []ReadIsAsWritten)
<1> SUFFICES ASSUME FieldsAreNoBytes PROVE PSpec => []ReadIsAsWritten
  OBVIOUS
<1>1. PayloadInv => ReadIsAsWritten
  BY PayloadRead DEF ReadIsAsWritten
<1> QED  BY <1>1, PayloadInvariant, PTL

\* The buffer that is used for segment after segment has the payload asked for,
\* or, after a failure, none or a whole one: never the bytes that were refused.
THEOREM BufferAsWritten == FieldsAreNoBytes => (PSpec => []BufferHoldsPayload)
<1> SUFFICES ASSUME FieldsAreNoBytes PROVE PSpec => []BufferHoldsPayload
  OBVIOUS
<1>1. PayloadInv => BufferHoldsPayload
  BY DEF PayloadInv, KeptInv
<1> QED  BY <1>1, PayloadInvariant, PTL

\* The checksum that segment_payload_info hands out does for the mapped bytes
\* what the file's own does for a read, after the file was changed or collected.
THEOREM MappedAsWritten == FieldsAreNoBytes => (PSpec => []MappedIsAsWritten)
<1> SUFFICES ASSUME FieldsAreNoBytes PROVE PSpec => []MappedIsAsWritten
  OBVIOUS
<1>1. PayloadInv => MappedIsAsWritten
  BY DEF MappedIsAsWritten, MappedBytesVerify, PayloadInv, KeptInv
<1> QED  BY <1>1, PayloadInvariant, PTL

-----------------------------------------------------------------------------
(* The names.                                                              *)

LEMMA Single ==
  ASSUME NEW S, NEW s \in Seq(S), Len(s) = 1
  PROVE  s = <<s[1]>>
<1> DEFINE t == <<s[1]>>
<1>1. t \in Seq(S) /\ Len(t) = 1 /\ t[1] = s[1]
  OBVIOUS
<1> HIDE DEF t
<1>2. s = t
  BY <1>1, SeqEqual
<1> QED  BY <1>2 DEF t

\* The provers do not know that a literal is a STRING.
Texts == STRING \cup {"wal", "seg", "idx", "manifest", "other", "none",
                      "tmp", "note", "x", "y", ""}

\* What the dots of a name separate.
Parts == {Number(n) : n \in Nat} \cup {Word(w) : w \in Texts}

NameSet == [namespace : Texts, parts : Seq(Parts)]

EmptyWord == Word("")
TmpWord == Word("tmp")

LEMMA PartsDiffer ==
  /\ \A m, n : Number(m) = Number(n) => m = n
  /\ \A v, w : Word(v) = Word(w) => v = w
  /\ \A n, w : Number(n) # Word(w)
<1>1. \A m, n : Number(m) = Number(n) => m = n
  BY DEF Number
<1>2. \A v, w : Word(v) = Word(w) => v = w
  BY DEF Word
<1>3. ASSUME NEW n, NEW w, Number(n) = Word(w)
      PROVE  FALSE
  BY <1>3 DEF Number, Word
<1> QED  BY <1>1, <1>2, <1>3

LEMMA NameParts ==
  ASSUME NEW namespace \in Texts, NEW parts \in Seq(Parts)
  PROVE  /\ Name(namespace, parts) \in NameSet
         /\ Name(namespace, parts).namespace = namespace
         /\ Name(namespace, parts).parts = parts
BY DEF Name, NameSet

LEMMA TmpParts ==
  ASSUME NEW name \in NameSet
  PROVE  /\ Tmp(name) \in NameSet
         /\ Tmp(name).namespace = name.namespace
         /\ Len(Tmp(name).parts) = Len(name.parts) + 1
         /\ \A i \in 1 .. Len(name.parts) : Tmp(name).parts[i] = name.parts[i]
         /\ Tmp(name).parts[Len(name.parts) + 1] = TmpWord
<1>1. /\ name.parts \in Seq(Parts) /\ Word("tmp") \in Parts
      /\ Tmp(name).parts = Append(name.parts, Word("tmp"))
      /\ Tmp(name).namespace = name.namespace
      /\ DOMAIN Tmp(name) = DOMAIN name
  BY DEF NameSet, Tmp, Parts, Texts
<1> DEFINE longer == Append(name.parts, Word("tmp"))
<1>2. /\ longer \in Seq(Parts) /\ Len(longer) = Len(name.parts) + 1
      /\ \A i \in 1 .. Len(name.parts) : longer[i] = name.parts[i]
      /\ longer[Len(name.parts) + 1] = Word("tmp")
  <2>1. longer \in Seq(Parts) /\ Len(longer) = Len(name.parts) + 1
    BY <1>1, AppendProperties
  <2>2. \A i \in 1 .. Len(name.parts) : longer[i] = name.parts[i]
    BY <1>1, AppendProperties
  <2>3. longer[Len(name.parts) + 1] = Word("tmp")
    BY <1>1, AppendProperties
  <2> QED  BY <2>1, <2>2, <2>3
<1>3. Tmp(name) \in NameSet
  <2>1. Tmp(name) = [name EXCEPT !.parts = longer]
    BY DEF Tmp
  <2> QED  BY <1>2, <2>1 DEF NameSet
<1>4. Tmp(name).parts = longer
  BY <1>1
<1> HIDE DEF longer
<1> QED  BY <1>1, <1>2, <1>3, <1>4, Zenon DEF TmpWord

LEMMA IndexParts ==
  ASSUME NEW s \in Nat, NEW kind \in Seq(Texts)
  PROVE  /\ IndexName(s, kind) \in NameSet
         /\ IndexName(s, kind).namespace = "idx"
         /\ Len(IndexName(s, kind).parts) = 1 + Len(kind)
         /\ IndexName(s, kind).parts[1] = Number(s)
         /\ \A i \in 1 .. Len(kind) : IndexName(s, kind).parts[1 + i] = Word(kind[i])
<1> DEFINE words == WordsOf(kind)
           id == <<Number(s)>>
           all == id \o words
<1>1. id \in Seq(Parts) /\ Len(id) = 1 /\ id[1] = Number(s)
  BY DEF Parts
<1>2. /\ words \in Seq(Parts) /\ Len(words) = Len(kind)
      /\ \A i \in 1 .. Len(kind) : words[i] = Word(kind[i])
  <2>1. PICK k \in Nat : k = Len(kind) /\ DOMAIN kind = 1 .. k
    OBVIOUS
  <2>2. words = [i \in 1 .. k |-> Word(kind[i])]
    BY <2>1 DEF WordsOf
  <2>3. \A i \in 1 .. k : Word(kind[i]) \in Parts
    <3>1. \A i \in 1 .. k : kind[i] \in Texts
      BY <2>1
    <3>3. \A w \in Texts : Word(w) \in Parts
      BY DEF Parts
    <3> QED  BY <3>1, <3>3, Zenon
  <2> HIDE DEF words
  <2> QED  BY <2>1, <2>2, <2>3
<1> HIDE DEF words, id
<1>3. all \in Seq(Parts) /\ Len(all) = Len(id) + Len(words)
  BY <1>1, <1>2, ConcatProperties
<1>4. all[1] = Number(s)
  BY <1>1, <1>2, ConcatProperties
<1>5. ASSUME NEW i \in 1 .. Len(kind)
      PROVE  all[1 + i] = Word(kind[i])
  <2>1. i \in 1 .. Len(words) /\ id \in Seq(Parts) /\ words \in Seq(Parts)
    BY <1>1, <1>2
  <2>2. all[Len(id) + i] = words[i]
    BY <2>1, Joined
  <2> QED  BY <1>1, <1>2, <2>2
<1>6. IndexName(s, kind) = Name("idx", all)
  BY DEF IndexName, all, id, words
<1> HIDE DEF all
<1>7. /\ IndexName(s, kind) \in NameSet
      /\ IndexName(s, kind).namespace = "idx"
      /\ IndexName(s, kind).parts = all
  <2>1. "idx" \in Texts
    BY DEF Texts
  <2>2. /\ Name("idx", all) \in NameSet
        /\ Name("idx", all).namespace = "idx"
        /\ Name("idx", all).parts = all
    BY <1>3, <2>1, NameParts
  <2> QED  BY <1>6, <2>2, Zenon
<1>8. Len(all) = 1 + Len(kind)
  BY <1>1, <1>2, <1>3
<1> QED  BY <1>4, <1>5, <1>7, <1>8, Zenon

LEMMA PlainParts ==
  /\ ManifestPath \in NameSet /\ ManifestPath.namespace = "manifest"
  /\ ManifestPath.parts = <<>>
  /\ \A e \in Nat : /\ WalPath(e) \in NameSet /\ WalPath(e).namespace = "wal"
                    /\ WalPath(e).parts = <<Number(e)>>
  /\ \A s \in Nat : /\ SegPath(s) \in NameSet /\ SegPath(s).namespace = "seg"
                    /\ SegPath(s).parts = <<Number(s)>>
<1>1. \A n \in Nat : <<Number(n)>> \in Seq(Parts)
  BY DEF Parts
<1>2. <<>> \in Seq(Parts)
  OBVIOUS
<1>3. /\ ManifestPath \in NameSet /\ ManifestPath.namespace = "manifest"
      /\ ManifestPath.parts = <<>>
  BY <1>2, NameParts DEF ManifestPath, Texts
<1>4. ASSUME NEW e \in Nat
      PROVE  /\ WalPath(e) \in NameSet /\ WalPath(e).namespace = "wal"
             /\ WalPath(e).parts = <<Number(e)>>
  BY <1>1, NameParts DEF WalPath, Texts
<1>5. ASSUME NEW s \in Nat
      PROVE  /\ SegPath(s) \in NameSet /\ SegPath(s).namespace = "seg"
             /\ SegPath(s).parts = <<Number(s)>>
  BY <1>1, NameParts DEF SegPath, Texts
<1> QED  BY <1>3, <1>4, <1>5

ValidKinds == {k \in Kinds : ValidKind(k)}

\* The names a directory may hold.
SegNames == {SegPath(s) : s \in SegIds}
WalNames == {WalPath(e) : e \in Epochs}
IdxNames == {IndexName(s, k) : s \in SegIds, k \in ValidKinds}
OldNames == {IndexName(s, k) : s \in SegIds, k \in LegacyKinds}
TmpNames == {Tmp(n) : n \in {ManifestPath} \cup SegNames \cup IdxNames}
Known == Foreign \cup {ManifestPath} \cup WalNames \cup SegNames \cup IdxNames
           \cup OldNames \cup TmpNames

\* No older kind ends like a temporary file: its sidecar would be replaced, whole,
\* by the next one of the kind before the last dot.
NoLegacyTmp == \A k \in LegacyKinds : k[Len(k)] # "tmp"

LEMMA NumbersAreNat == SegIds \subseteq Nat /\ Epochs \subseteq Nat
<1>1. MaxSegId \in Nat /\ MaxEpoch \in Nat
  BY NamesAssumption, Zenon
<1> QED  BY <1>1 DEF SegIds, Epochs

LEMMA KindsAreTexts ==
  /\ \A k \in Kinds \cup LegacyKinds : k \in Seq(Texts) /\ k # <<>>
  /\ \A k \in LegacyKinds : k # <<"">>
<1>1. STRING \subseteq Texts
  BY DEF Texts
<1>2. \A k \in Kinds \cup LegacyKinds : k \in Seq(Texts)
  BY <1>1, NamesAssumption, SeqMonotonic
<1> QED  BY <1>2, NamesAssumption, Zenon

LEMMA SegName ==
  ASSUME NEW n \in SegNames
  PROVE  /\ n \in NameSet /\ n.namespace = "seg" /\ Len(n.parts) = 1
         /\ \E s \in SegIds : n = SegPath(s) /\ n.parts = <<Number(s)>>
<1>1. PICK s \in SegIds : n = SegPath(s)
  BY DEF SegNames
<1>2. s \in Nat
  BY NumbersAreNat
<1>3. n \in NameSet /\ n.namespace = "seg" /\ n.parts = <<Number(s)>>
  BY <1>1, <1>2, PlainParts
<1> QED  BY <1>1, <1>3

LEMMA IdxName ==
  ASSUME NEW n \in IdxNames
  PROVE  /\ n \in NameSet /\ n.namespace = "idx" /\ Len(n.parts) = 2
         /\ n.parts[2] # EmptyWord
         /\ \E s \in SegIds : n.parts[1] = Number(s)
<1>1. PICK s \in SegIds, k \in ValidKinds : n = IndexName(s, k)
  BY DEF IdxNames
<1>2. s \in Nat /\ k \in Seq(Texts) /\ Len(k) = 1
  BY NumbersAreNat, KindsAreTexts DEF ValidKinds, ValidKind
<1>3. /\ n \in NameSet /\ n.namespace = "idx" /\ Len(n.parts) = 1 + Len(k)
      /\ n.parts[1] = Number(s)
  BY <1>1, <1>2, IndexParts
<1>4. n.parts[2] = Word(k[1])
  <2>1. 1 \in 1 .. Len(k) /\ 1 + 1 = 2
    BY <1>2
  <2>2. n.parts[1 + 1] = Word(k[1])
    BY <1>1, <1>2, <2>1, IndexParts
  <2> QED  BY <2>1, <2>2
<1>5. Word(k[1]) # EmptyWord
  BY PartsDiffer, Zenon DEF ValidKinds, ValidKind, EmptyWord
<1> QED  BY <1>2, <1>3, <1>4, <1>5

LEMMA OldName ==
  ASSUME NEW n \in OldNames
  PROVE  /\ n \in NameSet /\ n.namespace = "idx" /\ Len(n.parts) >= 2
         /\ ~(Len(n.parts) = 2 /\ n.parts[2] = EmptyWord)
         /\ \E s \in SegIds : n.parts[1] = Number(s)
         /\ NoLegacyTmp => n.parts[Len(n.parts)] # TmpWord
<1>1. PICK s \in SegIds, k \in LegacyKinds : n = IndexName(s, k)
  BY DEF OldNames
<1>2. s \in Nat /\ k \in Seq(Texts) /\ k # <<>>
  BY NumbersAreNat, KindsAreTexts
<1>3. PICK last \in Nat : last = Len(k) /\ last >= 1
  BY <1>2
<1>4. /\ n \in NameSet /\ n.namespace = "idx" /\ Len(n.parts) = 1 + last
      /\ n.parts[1] = Number(s)
  BY <1>1, <1>2, <1>3, IndexParts
<1>5. \A i \in 1 .. last : n.parts[1 + i] = Word(k[i])
  BY <1>1, <1>2, <1>3, IndexParts
<1>6. ASSUME Len(n.parts) = 2, n.parts[2] = EmptyWord
      PROVE  FALSE
  <2>0. 1 + last = 2
    BY <1>4, <1>6, Zenon
  <2>1. last = 1 /\ 1 + 1 = 2
    BY <2>0
  <2>2. n.parts[1 + 1] = Word(k[1])
    BY <1>5, <2>1
  <2>3. k[1] = ""
    BY <1>6, <2>1, <2>2, PartsDiffer, Zenon DEF EmptyWord
  <2>4. k = <<k[1]>>
    BY <1>2, <1>3, <2>1, Single
  <2> QED  BY <2>3, <2>4, KindsAreTexts, Zenon
<1>7. NoLegacyTmp => n.parts[Len(n.parts)] # TmpWord
  <2>1. n.parts[1 + last] = Word(k[last])
    BY <1>3, <1>5
  <2>2. NoLegacyTmp => Word(k[last]) # TmpWord
    BY <1>3, PartsDiffer, Zenon DEF NoLegacyTmp, TmpWord
  <2> QED  BY <1>4, <2>1, <2>2
<1> QED  BY <1>3, <1>4, <1>6, <1>7

LEMMA TmpName ==
  ASSUME NEW n \in {ManifestPath} \cup SegNames \cup IdxNames
  PROVE  /\ n \in NameSet
         /\ Tmp(n) \in NameSet /\ Tmp(n).namespace = n.namespace
         /\ Len(Tmp(n).parts) = Len(n.parts) + 1
         /\ Tmp(n).parts[Len(Tmp(n).parts)] = TmpWord
         /\ n.namespace = "manifest" => n = ManifestPath /\ Len(n.parts) = 0
         /\ n.namespace = "seg" => n \in SegNames /\ Len(n.parts) = 1
         /\ n.namespace = "idx" => n \in IdxNames /\ Len(n.parts) = 2
         /\ n.namespace \in {"manifest", "seg", "idx"}
<1>1. CASE n = ManifestPath
  BY <1>1, PlainParts, TmpParts
<1>2. CASE n \in SegNames
  BY <1>2, SegName, TmpParts
<1>3. CASE n \in IdxNames
  BY <1>3, IdxName, TmpParts
<1> QED  BY <1>1, <1>2, <1>3

LEMMA SidecarOf ==
  ASSUME NEW n \in NameSet, n.namespace = "idx", Len(n.parts) >= 2,
         ~(Len(n.parts) = 2 /\ n.parts[2] = EmptyWord),
         NEW s \in SegIds, n.parts[1] = Number(s)
  PROVE  IdxSegId(n) = {s}
<1>1. n.parts \in Seq(Parts)
  BY DEF NameSet
<1>2. PICK k \in Nat : k = Len(n.parts) /\ k >= 2
  BY <1>1
<1>3. Tail(n.parts) # <<EmptyWord>>
  <2>1. <<EmptyWord>>[1] = EmptyWord /\ Len(<<EmptyWord>>) = 1
    OBVIOUS
  <2>2. Tail(n.parts)[1] = n.parts[2] /\ Len(Tail(n.parts)) = k - 1
    BY <1>1, <1>2
  <2>3. k - 1 = 1 => k = 2
    BY <1>2
  <2> QED  BY <1>2, <2>1, <2>2, <2>3, Zenon
<1>4. SubSeq(n.parts, 1, 1) = <<Number(s)>>
  <2> DEFINE first == SubSeq(n.parts, 1, 1)
  <2>1. 1 \in 1 .. k + 1 /\ 1 \in 1 - 1 .. k /\ 1 - (1 - 1) = 1 /\ (1 - 1) + 1 = 1
    BY <1>2
  <2>2. first \in Seq(Parts) /\ Len(first) = 1 /\ first[1] = n.parts[1]
    BY <1>1, <1>2, <2>1, Sliced
  <2> HIDE DEF first
  <2>3. first = <<first[1]>>
    BY <2>2, Single
  <2> QED  BY <2>2, <2>3, Zenon DEF first
<1>5. Parsed(SubSeq(n.parts, 1, 1)) = {s}
  <2>1. \A i : <<Number(i)>> = <<Number(s)>> <=> i = s
    <3>1. \A i : <<Number(i)>>[1] = Number(i)
      OBVIOUS
    <3> QED  BY <3>1, PartsDiffer, Zenon
  <2> QED  BY <1>4, <2>1 DEF Parsed
<1> QED  BY <1>2, <1>3, <1>5, Zenon DEF IdxSegId, EmptyWord

LEMMA WalName ==
  ASSUME NEW e \in Epochs
  PROVE  /\ WalPath(e) \in NameSet /\ WalPath(e).namespace = "wal"
         /\ WalPath(e).parts = <<Number(e)>>
BY NumbersAreNat, PlainParts

\* A temporary name is not read, and is no older sidecar's.
LEMMA TmpApart ==
  ASSUME NEW n \in TmpNames
  PROVE  n \notin ReadNames /\ (NoLegacyTmp => n \notin OldNames)
<1>1. PICK b \in {ManifestPath} \cup SegNames \cup IdxNames : n = Tmp(b)
  BY DEF TmpNames
<1>2. /\ n.namespace = b.namespace /\ Len(n.parts) = Len(b.parts) + 1
      /\ n.parts[Len(n.parts)] = TmpWord
      /\ n.namespace = "manifest" => Len(b.parts) = 0
      /\ n.namespace = "seg" => Len(b.parts) = 1
      /\ n.namespace = "idx" => Len(b.parts) = 2
      /\ n.namespace \in {"manifest", "seg", "idx"}
  BY <1>1, TmpName
<1>3. ReadNames = {ManifestPath} \cup WalNames \cup SegNames \cup IdxNames
  BY DEF ReadNames, WalNames, SegNames, IdxNames, ValidKinds
<1>4. n # ManifestPath
  <2>1. Len(ManifestPath.parts) = 0 /\ ManifestPath.namespace = "manifest"
    BY PlainParts
  <2> QED  BY <1>2, <2>1
<1>5. n \notin WalNames
  BY <1>2, WalName DEF WalNames
<1>6. n \notin SegNames
  BY <1>2, SegName
<1>7. n \notin IdxNames
  BY <1>2, IdxName
<1>8. NoLegacyTmp => n \notin OldNames
  BY <1>2, OldName
<1> QED  BY <1>3, <1>4, <1>5, <1>6, <1>7, <1>8

\* What the manifest needs, and a foreign file, is not swept.
LEMMA SweepSpares ==
  ASSUME NEW m, m.ids \subseteq SegIds, NEW n \in Needed(m)
  PROVE  /\ n \notin StaleWals(m.epoch)
         /\ n \notin SegmentTmps
         /\ n \notin Orphans(m.ids)
         /\ \A e : n = WalPath(e) => e = m.epoch
<1>1. \A e : WalPath(e).namespace = "wal" /\ WalPath(e).parts = <<Number(e)>>
  BY DEF WalPath, Name
<1>2. \A i, j : <<Number(i)>> = <<Number(j)>> => i = j
  <2>1. \A i : <<Number(i)>>[1] = Number(i)
    OBVIOUS
  <2> QED  BY <2>1, PartsDiffer, Zenon
<1>3. \A k \in SegmentTmps : k.namespace = "seg" /\ Len(k.parts) = 2
  <2> SUFFICES ASSUME NEW k \in SegmentTmps
               PROVE  k.namespace = "seg" /\ Len(k.parts) = 2
    OBVIOUS
  <2>1. PICK s \in SegIds : k = Tmp(SegPath(s))
    BY DEF SegmentTmps, SegTmpId
  <2>2. SegPath(s) \in SegNames
    BY DEF SegNames
  <2>3. /\ SegPath(s) \in NameSet
        /\ SegPath(s).namespace = "seg" /\ Len(SegPath(s).parts) = 1
    BY <2>2, SegName
  <2> DEFINE b == SegPath(s)
  <2> HIDE DEF b
  <2>4. /\ b \in NameSet => /\ Tmp(b).namespace = b.namespace
                           /\ Len(Tmp(b).parts) = Len(b.parts) + 1
    BY TmpParts
  <2>5. k.namespace = "seg" /\ Len(k.parts) = 1 + 1
    BY <2>1, <2>3, <2>4, Zenon DEF b
  <2> QED  BY <2>5
<1>4. CASE n \in Foreign
  <2>1. \/ n.namespace = "other"
        \/ n.namespace = "seg" /\ n.parts = <<Word("note")>>
        \/ n.namespace = "idx" /\ n.parts = <<Word("x"), Word("y")>>
    BY <1>4 DEF Foreign, Name
  <2>2. n.namespace # "wal"
    BY <2>1
  <2>3. \A w, i : <<Word(w)>> # <<Number(i)>>
    <3>1. \A w, i : <<Word(w)>>[1] = Word(w) /\ <<Number(i)>>[1] = Number(i)
      OBVIOUS
    <3> QED  BY <3>1, PartsDiffer, Zenon
  <2>4. SegId(n) = {}
    BY <2>1, <2>3 DEF SegId, Parsed
  <2>5. IdxSegId(n) = {}
    <3>1. \A v, w : SubSeq(<<Word(v), Word(w)>>, 1, 1) = <<Word(v)>>
      <4> SUFFICES ASSUME NEW v, NEW w
                   PROVE  SubSeq(<<Word(v), Word(w)>>, 1, 1) = <<Word(v)>>
        OBVIOUS
      <4> DEFINE p == Word(v)
                 q == Word(w)
      <4> HIDE DEF p, q
      <4> DEFINE both == <<p, q>>
                 first == SubSeq(both, 1, 1)
      <4>1. both \in Seq({p, q}) /\ Len(both) = 2 /\ both[1] = p
        OBVIOUS
      <4>2. 1 \in 1 .. 2 + 1 /\ 1 \in 1 - 1 .. 2 /\ 1 - (1 - 1) = 1 /\ (1 - 1) + 1 = 1
        OBVIOUS
      <4> HIDE DEF both
      <4>3. first \in Seq({p, q}) /\ Len(first) = 1 /\ first[1] = both[1]
        BY <4>1, <4>2, Sliced
      <4> HIDE DEF first
      <4>4. first = <<first[1]>>
        BY <4>3, Single
      <4> QED  BY <4>1, <4>3, <4>4, Zenon DEF first, both, p, q
    <3>2. CASE n.namespace = "idx"
      <4>1. n.parts = <<Word("x"), Word("y")>>
        BY <2>1, <3>2
      <4>2. Parsed(SubSeq(n.parts, 1, 1)) = {}
        BY <2>3, <3>1, <4>1 DEF Parsed
      <4> QED  BY <4>2 DEF IdxSegId
    <3>3. CASE n.namespace # "idx"
      BY <3>3 DEF IdxSegId
    <3> QED  BY <3>2, <3>3
  <2>6. n \notin SegmentTmps
    <3>1. n.namespace = "seg" => Len(n.parts) = 1
      BY <2>1
    <3> QED  BY <1>3, <3>1
  <2> QED  BY <1>1, <2>2, <2>4, <2>5, <2>6 DEF StaleWals, WalEpoch, Orphans
<1>5. CASE n = WalPath(m.epoch)
  <2>1. n.namespace = "wal" /\ n.parts = <<Number(m.epoch)>>
    BY <1>1, <1>5
  <2>2. n \notin StaleWals(m.epoch)
    BY <1>2, <2>1 DEF StaleWals, WalEpoch, Parsed
  <2>3. n \notin Orphans(m.ids) /\ n \notin SegmentTmps
    BY <1>3, <2>1 DEF Orphans, SegId, IdxSegId
  <2> QED  BY <1>1, <1>2, <2>1, <2>2, <2>3
<1>6. CASE \E s \in m.ids : n = SegPath(s)
  <2>1. PICK s \in m.ids : n = SegPath(s)
    BY <1>6
  <2>2. n.namespace = "seg" /\ n.parts = <<Number(s)>>
    BY <2>1 DEF SegPath, Name
  <2>3. Len(n.parts) = 1
    BY <2>2
  <2>4. n \notin Orphans(m.ids)
    BY <1>2, <2>1, <2>2 DEF Orphans, SegId, IdxSegId, Parsed
  <2> QED  BY <1>1, <1>3, <2>2, <2>3, <2>4 DEF StaleWals, WalEpoch
<1>7. CASE IdxSegId(n) \cap m.ids # {}
  <2>1. n.namespace = "idx"
    BY <1>7 DEF IdxSegId
  <2>2. \A i, j \in IdxSegId(n) : i = j
    BY <1>2 DEF IdxSegId, Parsed
  <2>3. n \notin Orphans(m.ids)
    BY <1>7, <2>1, <2>2 DEF Orphans, SegId
  <2> QED  BY <1>1, <1>3, <2>1, <2>3 DEF StaleWals, WalEpoch
<1> QED  BY <1>4, <1>5, <1>6, <1>7 DEF Needed

\* What the writer may write, and what it may know of its segments.
Targets == {ManifestPath} \cup SegNames
Stores == [epoch : Epochs, next : 0 .. MaxSegId + 1, ids : SUBSET SegIds]

NameTypes ==
  /\ names \subseteq Known /\ partial \subseteq TmpNames
  /\ manifest \in Stores /\ mem \in Stores
  /\ pc \in {"down", "open", "persist", "write", "rotate"}
  /\ sidecar \in IdxNames \cup {NoName}

\* Where the writer is in a checkpoint; a write in progress has its file.
WriterInv ==
  /\ pc \in {"persist", "write", "rotate"} => mem.epoch < MaxEpoch
  /\ pc = "rotate" => manifest = [mem EXCEPT !.epoch = @ + 1]
  /\ pc = "write" => /\ target \in Targets
                     /\ Tmp(target) \in names /\ Tmp(target) \in partial

\* What a consumer renames is its own partial file.
ConsumerInv ==
  (NoLegacyTmp /\ sidecar # NoName /\ Tmp(sidecar) \in names) => Tmp(sidecar) \in partial

NamesInv == NameTypes /\ WriterInv /\ ConsumerInv

LEMMA TargetsApart ==
  ASSUME NEW a \in Targets, NEW b \in IdxNames
  PROVE  a # Tmp(b) /\ Tmp(a) # Tmp(b) /\ Tmp(a) # b
<1>1. a \in {ManifestPath} \cup SegNames \cup IdxNames
  BY DEF Targets
<1>2. a.namespace \in {"manifest", "seg"} /\ Tmp(a).namespace = a.namespace
  <2>1. CASE a = ManifestPath
    BY <1>1, <2>1, PlainParts, TmpName
  <2>2. CASE a \in SegNames
    BY <1>1, <2>2, SegName, TmpName
  <2> QED  BY <2>1, <2>2 DEF Targets
<1>3. b.namespace = "idx" /\ Tmp(b).namespace = "idx"
  BY IdxName, TmpName
<1> QED  BY <1>2, <1>3

LEMMA TmpOfTargets ==
  /\ \A a \in Targets \cup IdxNames : Tmp(a) \in TmpNames
  /\ Targets \cup IdxNames \cup TmpNames \cup WalNames \cup OldNames \cup Foreign = Known
BY DEF Targets, TmpNames, Known

LEMMA WalsAndTmps ==
  ASSUME NEW b \in IdxNames
  PROVE  Tmp(b) \notin WalNames
<1>1. Tmp(b).namespace = "idx"
  BY IdxName, TmpName
<1> QED  BY <1>1, WalName DEF WalNames

LEMMA NamesOfIds ==
  /\ \A s \in SegIds : SegPath(s) \in SegNames
  /\ \A e \in Epochs : WalPath(e) \in WalNames
  /\ \A s \in SegIds, k \in LegacyKinds : IndexName(s, k) \in OldNames
  /\ \A s \in SegIds, k \in Kinds : ValidKind(k) => IndexName(s, k) \in IdxNames
BY DEF SegNames, WalNames, OldNames, IdxNames, ValidKinds

LEMMA NoSegmentsTyped == NoSegments \in Stores
<1>1. MaxSegId \in Nat /\ MaxEpoch \in Nat
  BY NamesAssumption, Zenon
<1> QED  BY <1>1 DEF NoSegments, Stores, Epochs

LEMMA InitNames == NInit => NamesInv
<1> SUFFICES ASSUME NInit PROVE NamesInv
  OBVIOUS
<1>1. names \subseteq Known
  BY TmpOfTargets DEF NInit
<1> QED  BY <1>1, NoSegmentsTyped DEF NInit, NamesInv, NameTypes, WriterInv, ConsumerInv

LEMMA NextNames ==
  ASSUME NamesInv, [NNext]_nVars
  PROVE  NamesInv'
<1> USE DEF NamesInv, NameTypes, WriterInv, ConsumerInv
<1>0. MaxSegId \in Nat /\ MaxEpoch \in Nat
  BY NamesAssumption, Zenon
<1>1. CASE Open
  <2> DEFINE garbage == StaleWals(manifest.epoch) \cup SegmentTmps \cup Orphans(manifest.ids)
  <2>1. DeleteFiles(garbage)
    BY <1>1 DEF Open
  <2> HIDE DEF garbage
  <2>2. /\ names' = names \ garbage /\ partial' = partial \ garbage
        /\ mem' = manifest /\ manifest' = manifest /\ pc' = "open"
        /\ sidecar' = sidecar
    BY <1>1, <2>1 DEF Open, DeleteFiles
  <2> QED  BY <2>2
<1>2. CASE Log
  <2>1. /\ names' = names \cup {WalPath(mem.epoch)}
        /\ UNCHANGED <<partial, manifest, mem, pc, target, sidecar>>
    BY <1>2 DEF Log
  <2>2. WalPath(mem.epoch) \in WalNames
    BY NamesOfIds DEF Stores
  <2>3. sidecar # NoName => Tmp(sidecar) \notin WalNames
    BY WalsAndTmps
  <2> QED  BY <2>1, <2>2, <2>3, TmpOfTargets
<1>3. CASE \E group \in SUBSET mem.ids : Seal(group)
  <2>1. PICK group \in SUBSET mem.ids : Seal(group)
    BY <1>3
  <2>2. mem' \in Stores
    <3>1. CASE /\ mem.next <= MaxSegId
               /\ mem' = [mem EXCEPT !.ids = (@ \ group) \cup {mem.next}, !.next = @ + 1]
      <4>1. mem.next \in SegIds /\ mem.next + 1 \in 0 .. MaxSegId + 1
        BY <1>0, <3>1 DEF Stores, SegIds
      <4> QED  BY <3>1, <4>1 DEF Stores
    <3>2. CASE mem' = [mem EXCEPT !.ids = @ \ group]
      BY <3>2 DEF Stores
    <3> QED  BY <2>1, <3>1, <3>2 DEF Seal
  <2> QED  BY <2>1, <2>2 DEF Seal
<1>4. CASE Checkpoint
  BY <1>4 DEF Checkpoint
<1>5. CASE BeginWrite
  <2>1. /\ BeginFile(target') /\ target' \in Targets
        /\ pc = "persist" /\ pc' = "write" /\ UNCHANGED <<manifest, mem, sidecar>>
    BY <1>5, NamesOfIds DEF BeginWrite, Unpersisted, Targets, Stores
  <2>2. names' = names \cup {Tmp(target')} /\ partial' = partial \cup {Tmp(target')}
    BY <2>1 DEF BeginFile
  <2> QED  BY <2>1, <2>2, TmpOfTargets
<1>6. CASE EndWrite
  <2>1. /\ names' = (names \ {Tmp(target)}) \cup {target}
        /\ partial' = partial \ {Tmp(target), target}
        /\ pc = "write" /\ UNCHANGED <<mem, sidecar>>
        /\ \/ manifest' = [mem EXCEPT !.epoch = @ + 1] /\ pc' = "rotate"
           \/ manifest' = manifest /\ pc' = "persist"
    BY <1>6 DEF EndWrite, RenameFile
  <2>2. target \in Targets /\ mem.epoch < MaxEpoch
    BY <2>1
  <2>3. manifest' \in Stores
    <3>1. mem.epoch + 1 \in Epochs
      BY <1>0, <2>2 DEF Stores, Epochs
    <3> QED  BY <2>1, <3>1 DEF Stores
  <2>4. sidecar # NoName => Tmp(sidecar) # target /\ Tmp(sidecar) # Tmp(target)
    BY <2>2, TargetsApart
  <2> QED  BY <2>1, <2>2, <2>3, <2>4, TmpOfTargets
<1>7. CASE WriteFails
  BY <1>7 DEF WriteFails, DeleteFiles
<1>8. CASE RotateAndGc
  <2> DEFINE garbage == Orphans(mem.ids) \cup {WalPath(mem.epoch)}
  <2>1. DeleteFiles(garbage)
    BY <1>8 DEF RotateAndGc
  <2> HIDE DEF garbage
  <2>2. /\ names' = names \ garbage /\ partial' = partial \ garbage
        /\ mem' = [mem EXCEPT !.epoch = @ + 1] /\ manifest' = manifest
        /\ pc = "rotate" /\ pc' = "open" /\ sidecar' = sidecar
    BY <1>8, <2>1 DEF RotateAndGc, DeleteFiles
  <2> QED  BY <2>2
<1>9. CASE Stop
  BY <1>9, NoSegmentsTyped DEF Stop
<1>10. CASE \E s \in SegIds, kind \in Kinds : BeginSidecar(s, kind)
  <2>1. PICK s \in SegIds, kind \in Kinds : BeginSidecar(s, kind)
    BY <1>10
  <2>2. /\ sidecar' \in IdxNames /\ BeginFile(sidecar')
        /\ UNCHANGED <<manifest, mem, pc, target>>
    BY <2>1, NamesOfIds DEF BeginSidecar
  <2>3. names' = names \cup {Tmp(sidecar')} /\ partial' = partial \cup {Tmp(sidecar')}
    BY <2>2 DEF BeginFile
  <2> QED  BY <2>2, <2>3, TmpOfTargets
<1>11. CASE \E s \in SegIds, kind \in LegacyKinds : LegacySidecar(s, kind)
  <2>1. PICK s \in SegIds, kind \in LegacyKinds : LegacySidecar(s, kind)
    BY <1>11
  <2>2. IndexName(s, kind) \in OldNames
    BY NamesOfIds
  <2>3. /\ names' = names \cup {IndexName(s, kind)}
        /\ UNCHANGED <<partial, manifest, mem, pc, target, sidecar>>
    BY <2>1 DEF LegacySidecar
  <2>4. NoLegacyTmp /\ sidecar # NoName => Tmp(sidecar) \notin OldNames
    BY TmpApart, TmpOfTargets
  <2> QED  BY <2>2, <2>3, <2>4, TmpOfTargets
<1>12. CASE EndSidecar
  <2>1. /\ sidecar # NoName /\ sidecar' = NoName
        /\ \/ /\ names' = (names \ {Tmp(sidecar)}) \cup {sidecar}
              /\ partial' = partial \ {Tmp(sidecar), sidecar}
           \/ UNCHANGED <<names, partial>>
        /\ UNCHANGED <<manifest, mem, pc, target>>
    BY <1>12 DEF EndSidecar, RenameFile
  <2>2. pc = "write" => Tmp(target) # Tmp(sidecar) /\ Tmp(target) # sidecar
    BY <2>1, TargetsApart
  <2> QED  BY <2>1, <2>2, TmpOfTargets
<1>13. CASE ConsumerStops
  BY <1>13 DEF ConsumerStops
<1>14. CASE UNCHANGED nVars
  BY <1>14 DEF nVars
<1> QED
  BY <1>1, <1>2, <1>3, <1>4, <1>5, <1>6, <1>7, <1>8, <1>9, <1>10, <1>11, <1>12,
     <1>13, <1>14 DEF NNext

\* The directory holds known names, and every file that is not written to its
\* end has a temporary one.
THEOREM NamesKept == NSpec => []NamesInv
BY InitNames, NextNames, PTL DEF NSpec

\* No half-written file ever has a name that open, a catalog or a cache reads.
THEOREM NeverReadsPartial == NSpec => []PartialNeverRead
<1>1. NamesInv => PartialNeverRead
  BY TmpApart DEF NamesInv, NameTypes, PartialNeverRead
<1> QED  BY <1>1, NamesKept, PTL

LEMMA StepSpares ==
  ASSUME NoLegacyTmp, NamesInv, [NNext]_nVars
  PROVE  /\ ((names \ names') \ partial) \cap Needed(manifest') = {}
         /\ pc' = "write" => Tmp(target') \in names'
<1> USE DEF NamesInv, NameTypes, WriterInv, ConsumerInv
<1>1. NamesInv'
  BY NextNames
<1>2. pc' = "write" => Tmp(target') \in names'
  BY <1>1
<1>3. CASE Open
  <2> DEFINE m == manifest
  <2>1. /\ names' = names \ (StaleWals(m.epoch) \cup SegmentTmps \cup Orphans(m.ids))
        /\ manifest' = m
    BY <1>3 DEF Open, DeleteFiles
  <2>2. m.ids \subseteq SegIds
    BY DEF Stores
  <2> HIDE DEF m
  <2> QED  BY <1>2, <2>1, <2>2, SweepSpares
<1>4. CASE EndWrite
  <2>1. names \ names' \subseteq {Tmp(target)} /\ pc = "write"
    BY <1>4 DEF EndWrite, RenameFile
  <2> QED  BY <1>2, <2>1
<1>5. CASE WriteFails
  <2>1. names \ names' \subseteq {Tmp(target)} /\ pc = "write"
    BY <1>5 DEF WriteFails, DeleteFiles
  <2> QED  BY <1>2, <2>1
<1>6. CASE RotateAndGc
  <2> DEFINE m == manifest
  <2>1. /\ names' = names \ (Orphans(mem.ids) \cup {WalPath(mem.epoch)})
        /\ manifest' = m /\ pc = "rotate"
    BY <1>6 DEF RotateAndGc, DeleteFiles
  <2>2. /\ m.ids = mem.ids /\ m.epoch = mem.epoch + 1 /\ mem.epoch \in Nat
        /\ m.ids \subseteq SegIds
    BY <2>1, NumbersAreNat DEF Stores
  <2> HIDE DEF m
  <2>3. m.epoch # mem.epoch
    BY <2>2
  <2> QED  BY <1>2, <2>1, <2>2, <2>3, SweepSpares
<1>7. CASE EndSidecar
  <2>1. /\ sidecar # NoName
        /\ names \ names' \subseteq IF Tmp(sidecar) \in names THEN {Tmp(sidecar)} ELSE {}
    BY <1>7 DEF EndSidecar, RenameFile
  <2> QED  BY <1>2, <2>1
<1>8. CASE names \subseteq names'
  BY <1>2, <1>8
<1>9. \/ Open \/ EndWrite \/ WriteFails \/ RotateAndGc \/ EndSidecar
      \/ names \subseteq names'
  <2>1. CASE BeginWrite
    BY <2>1 DEF BeginWrite, BeginFile
  <2>2. CASE \E s \in SegIds, kind \in Kinds : BeginSidecar(s, kind)
    BY <2>2 DEF BeginSidecar, BeginFile
  <2>3. CASE Log \/ Checkpoint \/ Stop \/ ConsumerStops \/ UNCHANGED nVars
    BY <2>3 DEF Log, Checkpoint, Stop, ConsumerStops, nVars
  <2>4. CASE \E group \in SUBSET mem.ids : Seal(group)
    BY <2>4 DEF Seal
  <2>5. CASE \E s \in SegIds, kind \in LegacyKinds : LegacySidecar(s, kind)
    BY <2>5 DEF LegacySidecar
  <2> QED  BY <2>1, <2>2, <2>3, <2>4, <2>5 DEF NNext
<1> QED  BY <1>3, <1>4, <1>5, <1>6, <1>7, <1>8, <1>9

\* When no older kind ends like a temporary file, no sweep, rename or clean-up
\* takes a whole file that the manifest needs, nor the file a write is about to
\* rename.
THEOREM SweepsOnlyGarbage == NoLegacyTmp => (NSpec => SweepsTakeGarbage)
<1> SUFFICES ASSUME NoLegacyTmp PROVE NSpec => SweepsTakeGarbage
  OBVIOUS
<1>1. NamesInv /\ [NNext]_nVars =>
        [/\ ((names \ names') \ partial) \cap Needed(manifest') = {}
         /\ pc' = "write" => Tmp(target') \in names']_nVars
  BY StepSpares
<1> QED  BY <1>1, NamesKept, PTL DEF NSpec, SweepsTakeGarbage

\* A sidecar, an older one or a temporary one, is its segment's.
LEMMA SidecarKept ==
  ASSUME NEW ids, NEW n \in IdxNames \cup OldNames \cup TmpNames,
         n \in names, n \notin Orphans(ids), n.namespace = "idx"
  PROVE  \E s \in ids : n.parts[1] = Number(s)
<1>1. /\ n \in NameSet /\ Len(n.parts) >= 2
      /\ ~(Len(n.parts) = 2 /\ n.parts[2] = EmptyWord)
      /\ \E s \in SegIds : n.parts[1] = Number(s)
  <2>1. CASE n \in IdxNames
    BY <2>1, IdxName
  <2>2. CASE n \in OldNames
    BY <2>2, OldName
  <2>3. CASE n \in TmpNames
    <3>1. PICK b \in {ManifestPath} \cup SegNames \cup IdxNames : n = Tmp(b)
      BY <2>3 DEF TmpNames
    <3>2. /\ n \in NameSet /\ b \in IdxNames /\ b \in NameSet
          /\ Len(b.parts) = 2 /\ Len(n.parts) = Len(b.parts) + 1
      BY <3>1, TmpName
    <3>3. n.parts[1] = b.parts[1]
      <4>1. 1 \in 1 .. Len(b.parts)
        BY <3>2
      <4> QED  BY <3>1, <3>2, <4>1, TmpParts
    <3>4. \E s \in SegIds : b.parts[1] = Number(s)
      BY <3>2, IdxName
    <3>5. Len(n.parts) = 3
      BY <3>2
    <3> QED  BY <3>2, <3>3, <3>4, <3>5
  <2> QED  BY <2>1, <2>2, <2>3
<1>2. PICK s \in SegIds : n.parts[1] = Number(s)
  BY <1>1
<1>3. IdxSegId(n) = {s}
  BY <1>1, <1>2, SidecarOf
<1>4. s \in ids
  BY <1>3 DEF Orphans
<1> QED  BY <1>2, <1>4

LEMMA StepSweeps ==
  ASSUME NamesInv, [NNext]_nVars, pc = "down", pc' = "open",
         NEW n \in names' \ Foreign
  PROVE  \/ n \in {ManifestPath, Tmp(ManifestPath), WalPath(manifest.epoch)}
         \/ \E s \in manifest.ids :
              n = SegPath(s) \/ (n.namespace = "idx" /\ n.parts[1] = Number(s))
<1>1. Open
  BY DEF NNext, Log, Seal, Checkpoint, BeginWrite, EndWrite, WriteFails, RotateAndGc,
         Stop, BeginSidecar, LegacySidecar, EndSidecar, ConsumerStops, nVars
<1> DEFINE ids == manifest.ids
<1>2. /\ n \in names /\ n \notin StaleWals(manifest.epoch)
      /\ n \notin SegmentTmps /\ n \notin Orphans(ids)
  BY <1>1 DEF Open, DeleteFiles
<1>3. n \in Known
  BY <1>2 DEF NamesInv, NameTypes
<1> HIDE DEF ids
<1>4. CASE n \in WalNames
  <2>1. PICK e \in Epochs : n = WalPath(e)
    BY <1>4 DEF WalNames
  <2>2. e \in WalEpoch(n)
    BY <2>1, WalName DEF WalEpoch, Parsed
  <2> QED  BY <1>2, <2>1, <2>2 DEF StaleWals
<1>5. CASE n \in SegNames
  <2>1. PICK s \in SegIds : n = SegPath(s) /\ n.parts = <<Number(s)>>
    BY <1>5, SegName
  <2>2. s \in SegId(n)
    BY <1>5, <2>1, SegName DEF SegId, Parsed
  <2>3. s \in ids
    BY <1>2, <2>2 DEF Orphans
  <2> QED  BY <2>1, <2>3 DEF ids
<1>6. CASE n \in IdxNames \cup OldNames \cup TmpNames /\ n.namespace = "idx"
  BY <1>2, <1>6, SidecarKept DEF ids
<1>7. CASE n \in TmpNames /\ n.namespace # "idx"
  <2>1. PICK b \in {ManifestPath} \cup SegNames \cup IdxNames : n = Tmp(b)
    BY <1>7 DEF TmpNames
  <2>2. b \notin IdxNames
    BY <1>7, <2>1, IdxName, TmpName
  <2>3. b \notin SegNames
    <3>1. ASSUME NEW s \in SegIds, b = SegPath(s)
          PROVE  FALSE
      <4>1. s \in SegTmpId(n)
        BY <2>1, <3>1 DEF SegTmpId
      <4> QED  BY <1>2, <4>1 DEF SegmentTmps
    <3> QED  BY <3>1 DEF SegNames
  <2> QED  BY <2>1, <2>2, <2>3
<1>8. n \in IdxNames \cup OldNames => n.namespace = "idx"
  BY IdxName, OldName
<1> QED  BY <1>3, <1>4, <1>5, <1>6, <1>7, <1>8 DEF Known

\* What open leaves of the store's names is in use: its WAL, its segments, their
\* sidecars, and the temporary files that are replaced.
THEOREM OpenSweepsAll == NSpec => SweptAtOpen
<1>1. NamesInv /\ [NNext]_nVars =>
        [pc = "down" /\ pc' = "open" =>
           \A n \in names' \ Foreign :
             \/ n \in {ManifestPath, Tmp(ManifestPath), WalPath(manifest.epoch)}
             \/ \E s \in manifest.ids :
                  n = SegPath(s) \/ (n.namespace = "idx" /\ n.parts[1] = Number(s))]_nVars
  BY StepSweeps
<1> QED  BY <1>1, NamesKept, PTL DEF NSpec, SweptAtOpen

=============================================================================
