---------------------------- MODULE MCBytecode ----------------------------
(* Short methods of any operations, and longer ones of constants, a local   *)
(* of either width and pop2.                                                *)
EXTENDS Bytecode

General ==
  [common |-> {"const", "if", "vreturn"},
   rare |->
     {"const2", "ldc", "load", "load2", "store", "store2", "arrayload", "aaload",
      "arraystore", "pop", "pop2", "dup", "swap", "dup_x1", "iinc", "binary", "convert",
      "if2", "goto", "goto_w", "jsr", "ret", "wide_ret", "switch", "return", "athrow",
      "getstatic", "putstatic", "getfield", "putfield", "invokestatic", "invokevirtual",
      "invokeinterface", "new", "newarray", "anewarray", "arraylength", "checkcast",
      "monitor", "multianewarray", "wide_load", "wide_load2", "wide_store",
      "wide_store2", "wide_iinc"}]
OnLocals ==
  [common |-> {"const", "const2", "load2", "store2", "pop2"},
   rare |-> {"load", "store", "iinc"}]
MCVocabularies == {General, OnLocals}
MCLocals == {1}
===========================================================================
