----------------------------- MODULE MCConnections ----------------------------
(* Small instances of ConnectionSettings.                                  *)
EXTENDS ConnectionSettings, TLC

CONSTANTS o1, o2, h1, h2, h3, s1, s2

(* Nothing or two addresses in the older fields.                           *)
NothingOrTwo == [rows : {<<>>}, hosts : {<<>>, <<h1, h2>>}, secret : {s1, s2, NoSecret}]

(* A list of two with different secrets, the second perhaps without, and   *)
(* older fields that name the second and have not the first one's secret.  *)
ListOfTwo ==
    UNION {{[rows |-> <<[host |-> h2, secret |-> s], [host |-> h1, secret |-> t]>>,
             hosts |-> <<h1>>, secret |-> u] : t, u \in {s1, s2, NoSecret} \ {s}} :
           s \in {s1, s2}}

EnvFiles == NothingOrTwo \cup ListOfTwo
Alike == Permutations({o1, o2}) \cup Permutations({s1, s2})
AlikeSecrets == Permutations({s1, s2})
=============================================================================
