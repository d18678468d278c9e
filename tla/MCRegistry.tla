----------------------------- MODULE MCRegistry ------------------------------
(* The certified calibrator, a rival of the same key, a second fit that      *)
(* claims the certified id, and an artifact of the other profile.  The       *)
(* rival's validation is offered twice under one id with other results.      *)
EXTENDS CalibrationRegistry

Art(id, science, key, object) ==
    [id |-> id, science |-> science, key |-> key, object |-> object, payload |-> science]
Val(id, a, approval, promotion) ==
    [id |-> id, artifact |-> a, approval |-> approval, promotion |-> promotion]

CertifiedArtifact == Art("certified", "s1", "core", "o1")
Rival == Art("rival", "s2", "core", "o2")
FourArtifacts == {CertifiedArtifact, Rival, Art("certified", "s3", "core", "o1"),
                  Art("enhanced", "s4", "enhanced", "o2")}

CertifiedValidation == Val("v1", "certified", TRUE, TRUE)
FourValidations == {CertifiedValidation, Val("v2", "rival", TRUE, FALSE),
                    Val("v2", "rival", FALSE, TRUE), Val("v3", "rival", TRUE, TRUE)}

Pin == [artifact |-> CertifiedArtifact, validation |-> CertifiedValidation]
=============================================================================
