---------------------------- MODULE MCSimplePmi ----------------------------
(* SimplePmi for TLC: the programs of its runs. *)
EXTENDS SimplePmi

(* What pmi1/simple/test.c, and the start-up of a benchmark, call. *)
Exchange == <<"PMI_Init", "PMI_KVS_Get_my_name", "PMI_KVS_Put", "PMI_Barrier",
              "PMI_KVS_Get", "PMI_Barrier", "PMI_Finalize">>
(* The same number of barriers, with the rest of the interface. *)
Services == <<"PMI_Init", "PMI_Publish_name", "PMI_Publish_name", "PMI_Barrier",
              "PMI_Lookup_name", "PMI_Barrier", "PMI_Unpublish_name", "PMI_Finalize">>
Queries == <<"PMI_Init", "PMI_Get_universe_size", "PMI_Get_appnum", "PMI_Barrier",
             "PMI_KVS_Put", "PMI_KVS_Put", "PMI_Barrier", "PMI_Finalize">>
Aborting == <<"PMI_Init", "PMI_Barrier", "PMI_Abort", "PMI_Barrier">>
Long == <<"PMI_Init", "PMI_KVS_Put_long", "PMI_Barrier", "PMI_Finalize">>

OnlyExchange == {Exchange}
AllPrograms == {Exchange, Services, Queries, Aborting, Long}

(* They are programs that the theorems about the exchange speak of. *)
ASSUME ProgramsConventional == Conventional
=============================================================================
