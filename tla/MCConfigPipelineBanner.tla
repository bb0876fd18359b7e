----------------------- MODULE MCConfigPipelineBanner ------------------------
(* Two ids that files and users compete for, and a metric that files may     *)
(* drop under the users' cards.                                              *)
EXTENDS ConfigPipeline, TLC

CONSTANTS x, y

MCIds == {x, y}
MCContents == [targets : SUBSET {x, y}, metric : BOOLEAN]
MCExample == [targets |-> {x}, metric |-> TRUE]

\* loader.js:248 of demo_mode: "A boolean, and only ever true while BOTH halves hold --
\* still on the shipped example board, and not yet dismissed".  Asked of valid files that
\* have been loaded and that nothing refuses.
BannerOnlyOnDemo ==
    eff.demo /\ ~pending /\ Valid(disk) /\ ~refused => ~disk.own /\ ~dismissed

=============================================================================
