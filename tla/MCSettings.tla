------------------------------ MODULE MCSettings ------------------------------
(* The instance of Settings that TLC checks: one server that OpenCode starts    *)
(* anyway and two that share a package.                                         *)
EXTENDS Settings

On(v) == [enabled |-> TRUE, version |-> v]
Off == [enabled |-> FALSE, version |-> Latest]
MCCatalog == <<"typescript", "json", "css">>
MCContents == {{"networks"}, {"networks", "image"}}
MCPackageOf == [s \in Servers |-> IF s = "typescript" THEN "tls" ELSE "extracted"]
MCSubmitted == {[s \in {"typescript"} |-> Off],
                [s \in {"typescript", "json"} |-> IF s = "json" THEN On(1) ELSE On(Latest)],
                [s \in {"json", "css"} |-> IF s = "json" THEN On(Latest) ELSE On(1)],
                [s \in {"json", "css"} |-> IF s = "json" THEN On(1) ELSE On(Latest)]}
=============================================================================
