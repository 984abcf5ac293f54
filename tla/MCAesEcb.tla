------------------------------ MODULE MCAesEcb ------------------------------
(***************************************************************************)
(* The real tables, and the vectors of test.c and benchmark.c, which are   *)
(* the same: that of ECB, and of the longer ones of CBC and CTR what the   *)
(* cipher contributes to one block, the last of CBC and the second of CTR, *)
(* whose counter has carried.                                              *)
(***************************************************************************)
EXTENDS AesEcb, AesTables

MCsbox == Lookup(SBOX_TABLE)
MCrsbox == Lookup(RSBOX_TABLE)
MCRcon == [n \in 0..10 |-> Bits(RCON_TABLE[n + 1])]

WordsOf(bytes) == [w \in 0..Len(bytes) \div 4 - 1 |-> [j \in 0..3 |-> Bits(bytes[4 * w + j + 1])]]

Key128 == WordsOf(<<\h2b, \h7e, \h15, \h16, \h28, \hae, \hd2, \ha6, \hab, \hf7, \h15, \h88, \h09, \hcf, \h4f, \h3c>>)
Key256 == WordsOf(<<\h60, \h3d, \heb, \h10, \h15, \hca, \h71, \hbe, \h2b, \h73, \hae, \hf0, \h85, \h7d, \h77, \h81,
                    \h1f, \h35, \h2c, \h07, \h3b, \h61, \h08, \hd7, \h2d, \h98, \h10, \ha3, \h09, \h14, \hdf, \hf4>>)
In == WordsOf(<<\h6b, \hc1, \hbe, \he2, \h2e, \h40, \h9f, \h96, \he9, \h3d, \h7e, \h11, \h73, \h93, \h17, \h2a>>)
Out128 == WordsOf(<<\h3a, \hd7, \h7b, \hb4, \h0d, \h7a, \h36, \h60, \ha8, \h9e, \hca, \hf3, \h24, \h66, \hef, \h97>>)
Out256 == WordsOf(<<\hf3, \hee, \hd1, \hbd, \hb5, \hd2, \ha0, \h3c, \h06, \h4b, \h5a, \h7e, \h3d, \hb1, \h81, \hf8>>)

Text2 == WordsOf(<<\hae, \h2d, \h8a, \h57, \h1e, \h03, \hac, \h9c, \h9e, \hb7, \h6f, \hac, \h45, \haf, \h8e, \h51>>)
Text4 == WordsOf(<<\hf6, \h9f, \h24, \h45, \hdf, \h4f, \h9b, \h17, \had, \h2b, \h41, \h7b, \he6, \h6c, \h37, \h10>>)
CbcOut3_128 == WordsOf(<<\h73, \hbe, \hd6, \hb8, \he3, \hc1, \h74, \h3b, \h71, \h16, \he6, \h9e, \h22, \h22, \h95, \h16>>)
CbcOut4_128 == WordsOf(<<\h3f, \hf1, \hca, \ha1, \h68, \h1f, \hac, \h09, \h12, \h0e, \hca, \h30, \h75, \h86, \he1, \ha7>>)
CtrIn2_128 == WordsOf(<<\h98, \h06, \hf6, \h6b, \h79, \h70, \hfd, \hff, \h86, \h17, \h18, \h7b, \hb9, \hff, \hfd, \hff>>)
CbcOut3_256 == WordsOf(<<\h39, \hf2, \h33, \h69, \ha9, \hd9, \hba, \hcf, \ha5, \h30, \he2, \h63, \h04, \h23, \h14, \h61>>)
CbcOut4_256 == WordsOf(<<\hb2, \heb, \h05, \he2, \hc3, \h9b, \he9, \hfc, \hda, \h6c, \h19, \h07, \h8c, \h6a, \h9d, \h1b>>)
CtrIn2_256 == WordsOf(<<\hf4, \h43, \he3, \hca, \h4d, \h62, \hb5, \h9a, \hca, \h84, \he9, \h90, \hca, \hca, \hf5, \hc5>>)
Counter2 == WordsOf(<<\hf0, \hf1, \hf2, \hf3, \hf4, \hf5, \hf6, \hf7, \hf8, \hf9, \hfa, \hfb, \hfc, \hfd, \hff, \h00>>)

XorBlock(a, b) == Add(a, b)
AllVectors(key, ecbOut, cbcOut3, cbcOut4, ctrIn2) ==
  {[key |-> key, in |-> In, out |-> ecbOut],
   [key |-> key, in |-> XorBlock(Text4, cbcOut3), out |-> cbcOut4],
   [key |-> key, in |-> Counter2, out |-> XorBlock(ctrIn2, Text2)]}
Vectors128 == AllVectors(Key128, Out128, CbcOut3_128, CbcOut4_128, CtrIn2_128)
Vectors256 == AllVectors(Key256, Out256, CbcOut3_256, CbcOut4_256, CtrIn2_256)

OtherKey == [w \in 0..Nk - 1 |-> [j \in 0..3 |-> Bits((89 * (4 * w + j) + 3) % 256)]]
MCKeys == {v.key : v \in Vectors} \cup {OtherKey}
MCPlain == {v.in : v \in Vectors}
\* The table at aes.c:79-96 is the standard's S-box.
ASSUME SboxStandard == \A b \in Byte : sbox[b] = StandardSbox(b)

MCRoundKeys == {[w \in 0..Words - 1 |-> [j \in 0..3 |-> Bits((37 * (4 * w + j) + 201) % 256)]]}
=============================================================================
