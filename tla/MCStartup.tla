----------------------------- MODULE MCStartup -----------------------------
(***************************************************************************)
(* Configurations that break the rules of the validator, alone or together.*)
(***************************************************************************)
EXTENDS Startup

MCConfigs ==
    [mode : {"block_sparse", "dense"},
     B : {0, 1, 2},
     sizes : {<<>>, <<3>>, <<1, 2>>, <<2, 1>>, <<3, 0>>, <<2, 2>>, <<1, 1, 1>>},
     n : {0, 3},
     mLocal : {0, 2},
     mGlobal : {-1, 0, 2},
     streamMode : {"iid_dense", "correlated_block_sparse", "mistyped"}]

MCLaunches ==
    {l \in [claim : BOOLEAN, allowG4Skip : BOOLEAN, pinned : BOOLEAN] :
        ~l.claim => ~l.allowG4Skip /\ ~l.pinned}
=============================================================================
