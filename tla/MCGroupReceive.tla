--------------------------- MODULE MCGroupReceive ---------------------------
(* Instances of GroupReceive small enough for TLC. *)
EXTENDS GroupReceive, Sequences

CONSTANTS me, bob, carol

(* Rumors to everybody else. *)
Does(author, kind, target) ==
  [kind |-> kind, author |-> author, target |-> target,
   audience |-> Person \ {author}]
Says(author, kind) == Does(author, kind, author)

(* Whoever invites or is invited may come first. *)
Invited == << Does(bob, "invite", carol), Says(bob, "rename"),
              Does(carol, "remove", bob), Says(carol, "content") >>
(* Two members remove each other; only the invitation between them makes the
   last action valid. *)
Returning == << Says(bob, "content"), Does(bob, "remove", carol),
                Does(bob, "invite", carol), Does(carol, "remove", bob) >>
(* Rumors of three kinds may wait for the first content. *)
Waiting == << Says(bob, "reaction"), Says(carol, "rename"),
              Says(bob, "content"), Does(carol, "remove", bob) >>
(* A group created here, its name, and a removal of the account. *)
Created == << Says(me, "content"), Says(me, "rename"),
              Does(bob, "remove", me), Says(me, "reaction") >>
(* An own action beside the removal of the account, itself not valid. *)
Removed == << Says(bob, "content"), Does(carol, "remove", bob),
              Does(bob, "remove", me), Does(me, "remove", carol) >>

(* A reminder, which does not depend on members, is explored in one of the *)
(* histories, while nothing is hidden, read or sent at the same time; a    *)
(* deletion during a send or a mark-as-read in one each; and a             *)
(* mark-as-read not during a send.                                         *)
Reminded == group.unread = 1 /\ (group.deleted # 0 \/ Unread(stored, group.read) # 1)
Bounded ==
  /\ Reminded => rumor = Waiting /\ group.deleted = 0 /\ reading = 0 /\ building = {}
  /\ building # {} => reading = 0
  /\ building # {} /\ group.deleted # 0 => rumor = Created
  /\ reading # 0 /\ group.deleted # 0 => rumor = Waiting

MCHistories == {Invited, Returning, Waiting, Created, Removed}
=============================================================================
