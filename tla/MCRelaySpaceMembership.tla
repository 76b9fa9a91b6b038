----------------------- MODULE MCRelaySpaceMembership -----------------------
(***************************************************************************)
(* Small instances of RelaySpaceMembership.  Each set of jobs is a set of  *)
(* requests that clients may send, in any order and any number of times.   *)
(***************************************************************************)
EXTENDS RelaySpaceMembership, TLC

CONSTANTS s1, s2, a1, a2, d1, d2, i1, i2, m1, m2, m3, m4

HandlerSymmetry == Permutations(Handlers)

MCOwner == (d1 :> a1) @@ (d2 :> a2)
MCLimits == {NoLimit, 1}

Claim(i, a, d, at) == [op |-> "claim", invite |-> i, account |-> a, device |-> d, at |-> at]
Update(s, m, target, at) == [op |-> "update", space |-> s, member |-> m, target |-> target, at |-> at]
Register(s, a, d, state) == [op |-> "register", space |-> s, account |-> a, device |-> d, state |-> state]
Issuing(i, s, creator, max, expires, state) ==
  [op |-> "issue", invite |-> i, space |-> s, creator |-> creator, max |-> max,
   expires |-> expires, state |-> state]

\* Every kind of invite, every refusal of a claim, and members that are
\* disabled and leave while they claim.
ClaimMixJobs == {Issuing(i1, s1, Nobody, 1, 2, "active"),
                 Issuing(i2, s1, Nobody, NoLimit, Never, "active"),
                 Issuing(i2, s1, Nobody, 1, Never, "claimed"),
                 Issuing(i1, s1, Nobody, 1, Never, "expired"),
                 Claim(i1, a1, d1, 1), Claim(i1, a1, d1, 2), Claim(i2, a2, d2, 1),
                 Claim(i1, a2, d2, 1), Claim(i1, a1, d2, 1),
                 Claim(i1, Stranger, d1, 1), Claim(i1, a1, Stranger, 1),
                 Update(s1, m1, "disabled", 1), Update(s1, m1, "left", 1)}

\* Members registered, claimed in, disabled, reactivated and leaving, by way of
\* the right and of the wrong space.
LifecycleJobs == {Issuing(i1, s1, m1, 1, Never, "active"),
                  Issuing(i1, s2, m1, 0, Never, "active"),
                  Register(s1, a1, d1, "active"), Register(s1, a2, NoDevice, "left"),
                  Register(s1, a2, d2, "disabled"), Register(Stranger, a1, d1, "active"),
                  Claim(i1, a1, d1, 1),
                  Update(s1, m1, "disabled", 1), Update(s1, m1, "active", 1),
                  Update(s1, m1, "left", 1), Update(s1, m1, "disabled", 2),
                  Update(s2, m1, "left", 1), Update(s1, m2, "left", 2)}

\* Two claims and an update that contend on one invite and one member.
AnsweredJobs == {Issuing(i1, s1, Nobody, 1, Never, "active"),
                 Claim(i1, a1, d1, 1), Claim(i1, a2, d2, 1), Update(s1, m1, "disabled", 1)}
=============================================================================
