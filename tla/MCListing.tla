------------------------------ MODULE MCListing ------------------------------
(***************************************************************************)
(* Instructions to disassemble: every opcode with a few Mod R/M bytes, and *)
(* a few opcodes with many Mod R/M bytes and prefixes.                     *)
(***************************************************************************)
EXTENDS Listing

CONSTANT AllModRMs   \* Mod R/M bytes for every opcode

FlagOrder == <<"CF", "PF", "AF", "ZF", "SF", "TF", "IF", "DF", "OF">>
MCFlagBit == [f \in Flags |-> (CHOOSE i \in 1 .. Len(FlagOrder) : FlagOrder[i] = f) - 1]

Prefixes ==
    {<<>>, <<\h66>>, <<\h67>>, <<\h26>>, <<\h66, \h66>>, <<\h67, \h2E>>, <<\h36, \h66>>, <<\h64, \h65>>,
     <<\hF3>>, <<\h66, \hF2>>, <<\hF3, \h67>>, <<\hF0>>, <<\hF0, \h66, \h67, \h26, \hF3>>}

\* The bytes behind the opcode are told apart; the SIB byte has a base of 5.
Line(prefix, opcode, modrm, use32) ==
    [prefix |-> prefix, opcode |-> opcode, modrm |-> modrm, use32 |-> use32,
     code |-> prefix \o <<opcode, modrm, \h25>> \o [i \in 1 .. 16 |-> i]]

Opcodes == {b \in 0 .. 255 : InstructionTable(b).op \notin DisPrefixes}

MCLines ==
    {Line(prefix, opcode, modrm, use32) :
        prefix \in {<<>>, <<\h66>>}, opcode \in Opcodes, modrm \in AllModRMs, use32 \in BOOLEAN}
    \cup
    {Line(prefix, opcode, modrm, use32) :
        prefix \in Prefixes, opcode \in {\h81, \hA1, \hA4, \hAF, \hC8, \hE8, \hF7, \hEA, \h0F},
        modrm \in {\h00, \h04, \h05, \h06, \h44, \h4D, \h86, \h8C, \hC1}, use32 \in BOOLEAN}
=============================================================================
