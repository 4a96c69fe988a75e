----------------------------- MODULE MCRateLimits -----------------------------
EXTENDS RateLimits, TLC

MCEndpoints == {"chat", "images"}

Unset ==
    [rpmPlatform |-> NoLimit, tpmPlatform |-> NoLimit, rpm |-> 4, tpm |-> 8,
     rpmOf |-> [e \in MCEndpoints |-> NoLimit], tpmOf |-> [e \in MCEndpoints |-> NoLimit],
     rpmClient |-> NoLimit, tpmClient |-> NoLimit,
     rpd |-> NoLimit, tpd |-> NoLimit, in |-> NoLimit, out |-> NoLimit,
     ipm |-> NoLimit, strict |-> FALSE]

OneTier == [NoTier EXCEPT !.rpm = 3, !.tpm = 1, !.rpd = 3, !.ipm = 2]

Machine == [client |-> "c", user |-> "c"]
User == [client |-> "c", user |-> "u"]
Chat(cred) == [cred |-> cred, endpoint |-> "chat", images |-> 0]
Draw(cred) == [cred |-> cred, endpoint |-> "images", images |-> 2]

\* Tight in requests; tight in what they use; and a client on a tier.
MCDeployments ==
    [requests |->
        [limits |-> [Unset EXCEPT !.rpm = 2, !.rpmClient = 2,
                                  !.rpd = 2, !.strict = TRUE],
         tier |-> [c \in {} |-> NoTier],
         requests |-> {Chat(Machine), Chat(User)}],
     usage |->
        [limits |-> [Unset EXCEPT !.tpmPlatform = 5, !.tpmClient = 1,
                         !.tpmOf = [e \in MCEndpoints |-> 1], !.tpd = 4,
                         !.in = 1, !.out = 1, !.ipm = 2],
         tier |-> [c \in {} |-> NoTier],
         requests |-> {Chat(Machine), Draw(Machine)}],
     tiered |->
        [limits |-> [Unset EXCEPT !.rpmPlatform = 2], tier |-> [c \in {"c"} |-> OneTier],
         requests |-> {Chat(User)}]]

MCCreds == {Machine, User}

Slots == Permutations(Requests)

MCUsage == {[in |-> 1, out |-> 1]}
===============================================================================
