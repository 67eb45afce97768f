-------------------------- MODULE MCLoadBalancer --------------------------
(* LoadBalancer for a small tree of calls. *)
EXTENDS LoadBalancer

\* Three levels below the seed; the outer call has more than one branch to give away.
MCBranches ==
    [i \in Item |-> CASE i = 1 -> <<2, 3, 4>>
                      [] i = 2 -> <<5, 6>>
                      [] i = 5 -> <<7, 8>>
                      [] i = 6 -> <<9>>
                      [] OTHER -> <<>>]

\* The call of the seed has a single branch, which branches further.
SingleBranch ==
    [i \in Item |-> CASE i = 1 -> <<2>>
                      [] i = 2 -> <<3, 4>>
                      [] i = 3 -> <<5>>
                      [] OTHER -> <<>>]
=============================================================================
