---------------------- MODULE SimpleResourcesRecordProofs ----------------------
(***************************************************************************)
(* What the resources whose handlers are sequences of calls record, and    *)
(* what a run that ended well means, for any number of objects, values,    *)
(* faults and edits.                                                       *)
(***************************************************************************)
EXTENDS SimpleResourcesProofs

-----------------------------------------------------------------------------
(* What the programs have in common that makes their records true.         *)

(* A call that carries attributes is a request whose error ends the        *)
(* handler, or rolls it back, and one that may be skipped carries only     *)
(* what it is not skipped for.                                             *)
Tidy(c) ==
  /\ c.error # "ignore"
  /\ IF c.call = "send" THEN c.error # "goOn" ELSE c.fields = {}
  /\ c.only # {} => c.fields \subseteq c.only \cap c.changed
Sends(code) == \E n \in DOMAIN code : code[n].call = "send"
Sound(code) ==
  \A n \in DOMAIN code : /\ Tidy(code[n])
                         /\ code[n].late = "error" \/ ~Sends(code)

(* What a request asked for is waited for before the next one, whatever is *)
(* skipped.                                                                *)
Spaced(code) ==
  \A m \in DOMAIN code : \A n \in 1 .. m - 1 :
    code[n].call = "send" /\ code[m].call = "send" =>
      \E p \in n + 1 .. m - 1 : code[p].call = "poll" /\ code[p].only = code[n].only

(* Some request of the code may carry the attribute.                       *)
MaySend(code, f) ==
  \E n \in DOMAIN code : code[n].call = "send" /\ f \in code[n].fields

(* Every request of the code carries what is to be removed, too.           *)
Whole(code) == \A n \in DOMAIN code : code[n].omitted = {}

(* What Create records is what it sent, or what it has been answered.      *)
Optionals == {"note", "once"}
Starts(row) ==
  /\ row.learns \subseteq row.reads /\ row.fills \subseteq Optionals
  /\ row.leaves \subseteq row.learns \ row.fills /\ (row.early => row.leaves = {})
  /\ row.optional \ (row.computed \cup row.learns) \subseteq Optionals
  /\ \A f \in row.fields \ (row.learns \cup row.posted) : MaySend(row.create, f)
  /\ \A n \in DOMAIN row.create :
       row.create[n].call = "send" => row.create[n].fields \subseteq row.reads \ row.learns

(* What Update records is what it sent, what it was planned to keep, or    *)
(* what it waited for.                                                     *)
Concludes(k, row) ==
  \/ row.records = "changed"
  \/ /\ row.records = "plan" /\ row.sets = {} /\ Whole(row.update)
     /\ \A f \in row.fields \ row.replace : MaySend(row.update, f)
  \/ row.records = "read" /\ k \in Waiting \ {"vpc"}

(* What Read does not see is sent with the creation and then kept, or sent *)
(* by a handler of one call.                                               *)
Conceals(row) ==
  \A f \in row.fields \ row.reads :
    /\ f # "note" /\ f \in row.posted
    /\ \/ f \in row.replace \ row.sets
       \/ row.records = "changed" /\ Len(row.update) \in {0, 1}

Tracks(k, row) ==
  /\ Sound(row.create) /\ Sound(row.update)
  /\ row.prompt \/ Spaced(row.create)
  /\ row.prompt \/ row.records = "read" \/ Spaced(row.update)
  /\ Starts(row) /\ Concludes(k, row) /\ Conceals(row)

(* The calls.                                                              *)
LEMMA TidyCalls ==
  /\ \A c : c # "send" => Tidy(Call(c)) /\ Call(c).late = "error" /\ Call(c).call = c
  /\ \A F : Tidy(Send(F)) /\ Send(F).late = "error" /\ Send(F).call = "send"
            /\ Send(F).fields = F
  /\ \A F, G : Tidy(Patch(F, G)) /\ Patch(F, G).late = "error"
               /\ Patch(F, G).call = "send" /\ Patch(F, G).fields = F
BY DEF Tidy, Call, Send, Patch

LEMMA TidyConditions ==
  /\ \A F : LET c == IfChanged(F, Send(F)) IN
       Tidy(c) /\ c.late = "error" /\ c.call = "send" /\ c.fields = F /\ c.only = F
  /\ \A F : LET c == IfChanged(F, Poll) IN
       Tidy(c) /\ c.late = "error" /\ c.call = "poll" /\ c.only = F
  /\ \A F : LET c == IfChanged(F, [Poll EXCEPT !.error = "goOn"]) IN
       Tidy(c) /\ c.late = "error" /\ c.call = "poll" /\ c.only = F
  /\ \A f : LET c == Setting(f) IN
       Tidy(c) /\ c.late = "error" /\ c.call = "send" /\ c.fields = {f}
  /\ \A f : LET c == [Setting(f) EXCEPT !.error = "rollback"] IN
       Tidy(c) /\ c.late = "error" /\ c.call = "send" /\ c.fields = {f}
BY DEF Tidy, IfChanged, Send, Poll, Call, Setting

LEMMA TidyWaits ==
  /\ Tidy(KeepingPoll) /\ KeepingPoll.late = "error" /\ KeepingPoll.call = "poll"
  /\ \A c \in {[KeepingPoll EXCEPT !.blind = TRUE], [Poll EXCEPT !.blind = TRUE],
               [Poll EXCEPT !.error = "refetch"]} :
       Tidy(c) /\ c.late = "error" /\ c.call = "poll"
  /\ LET c == [Lookup EXCEPT !.error = "keep"] IN
       Tidy(c) /\ c.late = "error" /\ c.call = "lookup"
  /\ LET c == [Poll EXCEPT !.late = "passes"] IN Tidy(c) /\ c.call = "poll"
BY DEF Tidy, KeepingPoll, Poll, Lookup, Call

(* Codes without a request after the first, and codes with one.            *)
LEMMA TidyCodes ==
  ASSUME NEW c, Tidy(c)
  PROVE  /\ c.late = "error" => Sound(<<c>>)
         /\ Spaced(<<c>>)
         /\ c.call # "send" => ~Sends(<<c>>)
         /\ c.call = "send" => \A f \in c.fields : MaySend(<<c>>, f)
         /\ \A d : Tidy(d) /\ d.call # "send" =>
              /\ c.late = "error" /\ d.late = "error" => Sound(<<c, d>>)
              /\ Spaced(<<c, d>>)
              /\ c.call # "send" => ~Sends(<<c, d>>) /\ Sound(<<c, d>>)
              /\ c.call = "send" => \A f \in c.fields : MaySend(<<c, d>>, f)
<1> DEFINE a == <<c>>
<1>1. DOMAIN a = {1} /\ a[1] = c
  OBVIOUS
<1> HIDE DEF a
<1>2. /\ c.late = "error" => Sound(a)
      /\ c.call # "send" => ~Sends(a)
      /\ c.call = "send" => \A f \in c.fields : MaySend(a, f)
  BY <1>1 DEF Sound, Sends, MaySend
<1>3. Spaced(a)
  BY <1>1 DEF Spaced
<1>4. ASSUME NEW d, Tidy(d), d.call # "send"
      PROVE  /\ c.late = "error" /\ d.late = "error" => Sound(<<c, d>>)
             /\ Spaced(<<c, d>>)
             /\ c.call # "send" => ~Sends(<<c, d>>) /\ Sound(<<c, d>>)
             /\ c.call = "send" => \A f \in c.fields : MaySend(<<c, d>>, f)
  <2> DEFINE b == <<c, d>>
  <2>1. DOMAIN b = {1, 2} /\ b[1] = c /\ b[2] = d
    OBVIOUS
  <2> HIDE DEF b
  <2>2. /\ c.late = "error" /\ d.late = "error" => Sound(b)
        /\ c.call = "send" => \A f \in c.fields : MaySend(b, f)
    BY <1>4, <2>1 DEF Sound, MaySend
  <2>3. c.call # "send" => ~Sends(b) /\ Sound(b)
    BY <1>4, <2>1 DEF Sound, Sends
  <2>4. Spaced(b)
    BY <1>4, <2>1 DEF Spaced
  <2> QED BY <2>2, <2>3, <2>4 DEF b
<1> QED BY <1>2, <1>3, <1>4 DEF a

Quietly(code) == ~Sends(code) /\ Sound(code) /\ Spaced(code)

LEMMA QuietCreates ==
  /\ Quietly(<<Post>>) /\ Quietly(VpcCreate) /\ Quietly(<<Post, Get>>)
  /\ Quietly(RouteCreate) /\ Quietly(<<Post, KeepingPoll>>) /\ Quietly(<<Post, Poll>>)
  /\ Quietly(NodePoolCreate) /\ Quietly(ReplicaCreate)
<1>1. /\ Tidy(Post) /\ Post.late = "error" /\ Post.call = "post"
      /\ Tidy(Get) /\ Get.late = "error" /\ Get.call = "get"
      /\ Tidy(Poll) /\ Poll.late = "error" /\ Poll.call = "poll"
  BY TidyCalls DEF Post, Get, Poll
<1>2. Quietly(<<Post>>)
  BY <1>1, TidyCodes DEF Quietly
<1>3. ASSUME NEW d, Tidy(d), d.call # "send" PROVE Quietly(<<Post, d>>)
  BY <1>1, <1>3, TidyCodes DEF Quietly
<1>4. /\ Quietly(<<Post, Get>>) /\ Quietly(<<Post, KeepingPoll>>) /\ Quietly(<<Post, Poll>>)
      /\ Quietly(VpcCreate) /\ Quietly(RouteCreate) /\ Quietly(NodePoolCreate)
  BY <1>1, <1>3, TidyWaits DEF VpcCreate, RouteCreate, NodePoolCreate
<1>5. Quietly(ReplicaCreate)
  <2> DEFINE c == [Lookup EXCEPT !.error = "keep"]
  <2>1. /\ DOMAIN ReplicaCreate = 1 .. 3 /\ ReplicaCreate[1] = Post
        /\ ReplicaCreate[2] = KeepingPoll /\ ReplicaCreate[3] = c
    BY DEF ReplicaCreate
  <2>2. Tidy(c) /\ c.call = "lookup"
    BY TidyWaits
  <2> HIDE DEF c
  <2>3. \A n \in DOMAIN ReplicaCreate : Tidy(ReplicaCreate[n]) /\ ReplicaCreate[n].call # "send"
    BY <1>1, <2>1, <2>2, TidyWaits
  <2> QED BY <2>1, <2>3 DEF Quietly, Sound, Sends, Spaced
<1> QED BY <1>2, <1>4, <1>5

(* The creation of an interface sets its guard with a request.             *)
LEMMA InterfaceCreates ==
  /\ Sound(InterfaceCreate) /\ Spaced(InterfaceCreate) /\ MaySend(InterfaceCreate, "edit")
  /\ \A n \in DOMAIN InterfaceCreate : InterfaceCreate[n].fields \subseteq {"edit"}
<1> DEFINE c == Send({"edit"})
<1>1. /\ DOMAIN InterfaceCreate = 1 .. 3 /\ InterfaceCreate[1] = Post
      /\ InterfaceCreate[2] = c /\ InterfaceCreate[3] = Get
  BY DEF InterfaceCreate
<1>2. /\ Tidy(c) /\ c.late = "error" /\ c.call = "send" /\ c.fields = {"edit"}
      /\ Tidy(Post) /\ Post.late = "error" /\ Post.call = "post"
      /\ Tidy(Get) /\ Get.late = "error" /\ Get.call = "get"
  BY TidyCalls DEF Post, Get
<1> HIDE DEF c
<1>3. Sound(InterfaceCreate)
  BY <1>1, <1>2 DEF Sound
<1>4. Spaced(InterfaceCreate)
  BY <1>1, <1>2 DEF Spaced
<1>5. MaySend(InterfaceCreate, "edit")
  BY <1>1, <1>2 DEF MaySend
<1>6. \A n \in DOMAIN InterfaceCreate : InterfaceCreate[n].fields \subseteq {"edit"}
  BY <1>1, <1>2 DEF Tidy
<1> QED BY <1>3, <1>4, <1>5, <1>6

(* The updates of one request.                                             *)
LEMMA LoneUpdates ==
  /\ Sound(<<Unsupported>>) /\ Spaced(<<Unsupported>>) /\ Sound(<< >>) /\ Spaced(<< >>)
  /\ \A F : /\ Sound(<<Send(F)>>) /\ Spaced(<<Send(F)>>)
            /\ \A f \in F : MaySend(<<Send(F)>>, f)
            /\ Sound(<<IfChanged(F, Send(F))>>) /\ Spaced(<<IfChanged(F, Send(F))>>)
            /\ LET code == <<IfChanged(F, Send(F)), IfChanged(F, Poll)>>
               IN  Sound(code) /\ Spaced(code)
            /\ LET code == <<IfChanged(F, Send(F)),
                             IfChanged(F, [Poll EXCEPT !.error = "goOn"])>>
               IN  Sound(code) /\ Spaced(code) /\ \A f \in F : MaySend(code, f)
  /\ Sound(KubernetesUpdate) /\ Sound(NodePoolUpdate) /\ Sound(VmUpdate)
<1>1. Tidy(Unsupported) /\ Unsupported.late = "error" /\ Unsupported.call = "unsupported"
  BY TidyCalls DEF Unsupported
<1>2. /\ Tidy(Poll) /\ Poll.late = "error" /\ Poll.call = "poll"
      /\ Tidy(Get) /\ Get.late = "error" /\ Get.call = "get"
  BY TidyCalls DEF Poll, Get
<1>3. Sound(<< >>) /\ Spaced(<< >>)
  <2>1. DOMAIN << >> = {}
    OBVIOUS
  <2> QED BY <2>1 DEF Sound, Spaced
<1>4. ASSUME NEW F
      PROVE  /\ Sound(<<Send(F)>>) /\ Spaced(<<Send(F)>>)
             /\ \A f \in F : MaySend(<<Send(F)>>, f)
             /\ Sound(<<IfChanged(F, Send(F))>>) /\ Spaced(<<IfChanged(F, Send(F))>>)
  <2>1. Tidy(Send(F)) /\ Send(F).late = "error" /\ Send(F).call = "send" /\ Send(F).fields = F
    BY TidyCalls, Zenon
  <2>2. /\ Tidy(IfChanged(F, Send(F))) /\ IfChanged(F, Send(F)).late = "error"
    BY TidyConditions
  <2>3. Sound(<<Send(F)>>) /\ Spaced(<<Send(F)>>) /\ \A f \in Send(F).fields : MaySend(<<Send(F)>>, f)
    BY <2>1, TidyCodes, Zenon
  <2>4. Sound(<<IfChanged(F, Send(F))>>) /\ Spaced(<<IfChanged(F, Send(F))>>)
    BY <2>2, TidyCodes, Zenon
  <2> QED BY <2>1, <2>3, <2>4
<1>5. ASSUME NEW F
      PROVE  LET code == <<IfChanged(F, Send(F)), IfChanged(F, Poll)>>
             IN  Sound(code) /\ Spaced(code)
  <2> DEFINE c == IfChanged(F, Send(F))
             d == IfChanged(F, Poll)
  <2>1. /\ Tidy(c) /\ c.late = "error" /\ Tidy(d) /\ d.late = "error" /\ d.call = "poll"
    BY TidyConditions
  <2> HIDE DEF c, d
  <2>2. d.call # "send"
    BY <2>1
  <2>3. Sound(<<c, d>>) /\ Spaced(<<c, d>>)
    BY <2>1, <2>2, TidyCodes, Zenon
  <2> QED BY <2>3 DEF c, d
<1>6. ASSUME NEW F
      PROVE  LET code == <<IfChanged(F, Send(F)), IfChanged(F, [Poll EXCEPT !.error = "goOn"])>>
             IN  Sound(code) /\ Spaced(code) /\ \A f \in F : MaySend(code, f)
  <2> DEFINE c == IfChanged(F, Send(F))
             d == IfChanged(F, [Poll EXCEPT !.error = "goOn"])
  <2>1. /\ Tidy(c) /\ c.late = "error" /\ c.call = "send" /\ c.fields = F
        /\ Tidy(d) /\ d.late = "error" /\ d.call = "poll"
    BY TidyConditions
  <2> HIDE DEF c, d
  <2>2. d.call # "send"
    BY <2>1
  <2>3. Sound(<<c, d>>) /\ Spaced(<<c, d>>) /\ \A f \in F : MaySend(<<c, d>>, f)
    BY <2>1, <2>2, TidyCodes, Zenon
  <2> QED BY <2>3 DEF c, d
<1>7. Sound(KubernetesUpdate)
  <2> DEFINE c == [Patch({"note", "once"}, {"note"}) EXCEPT !.omitted = {"note"}]
  <2>1. Tidy(c) /\ c.late = "error"
    BY DEF Tidy, Patch, Send, Call
  <2> HIDE DEF c
  <2>2. Sound(<<c, Poll>>)
    BY <1>2, <2>1, TidyCodes
  <2> QED BY <2>2 DEF c, KubernetesUpdate
<1>8. Sound(NodePoolUpdate)
  <2> DEFINE c == Send({"edit", "size"})
             d == [Poll EXCEPT !.blind = TRUE]
  <2>1. Tidy(c) /\ c.late = "error" /\ Tidy(d) /\ d.late = "error"
    BY TidyCalls, TidyWaits
  <2>2. /\ DOMAIN NodePoolUpdate = 1 .. 3 /\ NodePoolUpdate[1] = c
        /\ NodePoolUpdate[2] = d /\ NodePoolUpdate[3] = Get
    BY DEF NodePoolUpdate
  <2> HIDE DEF c, d
  <2> QED BY <1>2, <2>1, <2>2 DEF Sound
<1>9. Sound(VmUpdate)
  <2> DEFINE c == IfChanged({"name"}, Send({"name"}))
             d == IfChanged({"edit"}, Send({"edit"}))
  <2>1. Tidy(c) /\ c.late = "error" /\ Tidy(d) /\ d.late = "error"
    BY TidyConditions
  <2>2. /\ DOMAIN VmUpdate = 1 .. 3 /\ VmUpdate[1] = c
        /\ VmUpdate[2] = d /\ VmUpdate[3] = Poll
    BY DEF VmUpdate
  <2> HIDE DEF c, d
  <2> QED BY <1>2, <2>1, <2>2 DEF Sound
<1>10. Sound(<<Unsupported>>) /\ Spaced(<<Unsupported>>)
  BY <1>1, TidyCodes
<1> QED BY <1>3, <1>4, <1>5, <1>6, <1>7, <1>8, <1>9, <1>10

(* Those that change one attribute after the other, and wait each time.    *)
LEMMA SteppedUpdates ==
  /\ Sound(ClusterUpdate) /\ Spaced(ClusterUpdate)
  /\ Sound(VolumeUpdate) /\ Spaced(VolumeUpdate)
  /\ \A f \in {"name", "edit", "size"} : MaySend(VolumeUpdate, f)
<1> DEFINE S(f) == IfChanged({f}, Send({f}))
           P(f) == IfChanged({f}, Poll)
<1>1. \A f : /\ S(f).call = "send" /\ Tidy(S(f)) /\ S(f).late = "error"
             /\ S(f).only = {f} /\ S(f).fields = {f}
             /\ P(f).call = "poll" /\ Tidy(P(f)) /\ P(f).late = "error" /\ P(f).only = {f}
  BY TidyConditions
<1>2. /\ ClusterUpdate = <<S("size"), P("size"), S("edit"), P("edit")>>
      /\ VolumeUpdate = <<S("name"), P("name"), S("edit"), P("edit"), S("size"), P("size")>>
  BY DEF ClusterUpdate, VolumeUpdate
<1> HIDE DEF S, P
<1>3. /\ DOMAIN ClusterUpdate = 1 .. 4
      /\ ClusterUpdate[1] = S("size") /\ ClusterUpdate[2] = P("size")
      /\ ClusterUpdate[3] = S("edit") /\ ClusterUpdate[4] = P("edit")
  BY <1>2
<1>4. /\ DOMAIN VolumeUpdate = 1 .. 6 /\ VolumeUpdate[1] = S("name") /\ VolumeUpdate[2] = P("name")
      /\ VolumeUpdate[3] = S("edit") /\ VolumeUpdate[4] = P("edit")
      /\ VolumeUpdate[5] = S("size") /\ VolumeUpdate[6] = P("size")
  BY <1>2
<1>5. Sound(ClusterUpdate)
  BY <1>1, <1>3 DEF Sound
<1>6. Sound(VolumeUpdate)
  BY <1>1, <1>4 DEF Sound
<1>7. Spaced(ClusterUpdate)
  <2>1. SUFFICES ASSUME NEW m \in 1 .. 4, NEW n \in 1 .. m - 1,
                        ClusterUpdate[n].call = "send", ClusterUpdate[m].call = "send"
                 PROVE  \E p \in n + 1 .. m - 1 : /\ ClusterUpdate[p].call = "poll"
                                                  /\ ClusterUpdate[p].only = ClusterUpdate[n].only
    BY <1>3 DEF Spaced
  <2>2. n = 1 /\ m = 3
    BY <1>1, <1>3, <2>1
  <2>3. ClusterUpdate[2].call = "poll" /\ ClusterUpdate[2].only = ClusterUpdate[1].only
    <3>1. S("size").only = P("size").only /\ P("size").call = "poll"
      BY <1>1
    <3> QED BY <1>3, <3>1
  <2> QED BY <2>2, <2>3
<1>8. Spaced(VolumeUpdate)
  <2>1. SUFFICES ASSUME NEW m \in 1 .. 6, NEW n \in 1 .. m - 1,
                        VolumeUpdate[n].call = "send", VolumeUpdate[m].call = "send"
                 PROVE  \E p \in n + 1 .. m - 1 : /\ VolumeUpdate[p].call = "poll"
                                                  /\ VolumeUpdate[p].only = VolumeUpdate[n].only
    BY <1>4 DEF Spaced
  <2>2. n \in {1, 3} /\ m \in {3, 5} /\ n + 1 \in n + 1 .. m - 1
    BY <1>1, <1>4, <2>1
  <2>3. /\ VolumeUpdate[2].call = "poll" /\ VolumeUpdate[2].only = VolumeUpdate[1].only
        /\ VolumeUpdate[4].call = "poll" /\ VolumeUpdate[4].only = VolumeUpdate[3].only
    <3>1. \A f : S(f).only = P(f).only /\ P(f).call = "poll"
      BY <1>1
    <3> QED BY <1>4, <3>1
  <2> QED BY <2>2, <2>3
<1>9. \A f \in {"name", "edit", "size"} : MaySend(VolumeUpdate, f)
  <2>1. /\ VolumeUpdate[1].call = "send" /\ "name" \in VolumeUpdate[1].fields
        /\ VolumeUpdate[3].call = "send" /\ "edit" \in VolumeUpdate[3].fields
        /\ VolumeUpdate[5].call = "send" /\ "size" \in VolumeUpdate[5].fields
    BY <1>1, <1>4
  <2>2. 1 \in DOMAIN VolumeUpdate /\ 3 \in DOMAIN VolumeUpdate /\ 5 \in DOMAIN VolumeUpdate
    BY <1>4
  <2> QED BY <2>1, <2>2 DEF MaySend
<1> QED BY <1>5, <1>6, <1>7, <1>8, <1>9

(* The settings of a bucket.                                               *)
LEMMA BucketSettings ==
  /\ Sound(BucketCreate) /\ Sound(BucketUpdate)
  /\ \A n \in DOMAIN BucketCreate :
       BucketCreate[n].call = "send" => BucketCreate[n].fields \subseteq Fields
  /\ \A f \in {"edit", "size", "note", "once"} : MaySend(BucketCreate, f)
<1> DEFINE r(f) == [Setting(f) EXCEPT !.error = "rollback"]
           F == {"edit", "size", "note", "once"}
<1>1. \A f : /\ Tidy(r(f)) /\ r(f).late = "error" /\ r(f).call = "send" /\ r(f).fields = {f}
             /\ Tidy(Setting(f)) /\ Setting(f).late = "error"
  BY TidyConditions
<1>2. Tidy(Post) /\ Post.late = "error" /\ Tidy(Undo) /\ Undo.late = "error"
  BY TidyCalls DEF Post, Undo
<1>3. Sound(BucketUpdate)
  <2>1. BucketUpdate = <<Setting("edit"), Setting("size"), Setting("note"), Setting("once")>>
    BY DEF BucketUpdate, Settings
  <2>2. \A n \in DOMAIN BucketUpdate : \E f : BucketUpdate[n] = Setting(f)
    BY <2>1
  <2> QED BY <1>1, <2>2, Zenon DEF Sound
<1> HIDE DEF r
<1>4. \A n \in 2 .. 5 : \E f \in F : BucketCreate[n] = r(f)
  BY BucketProgram DEF r
<1>5. Sound(BucketCreate)
  <2>1. \A n \in 1 .. 6 : n = 1 \/ n = 6 \/ n \in 2 .. 5
    OBVIOUS
  <2> QED BY <1>1, <1>2, <1>4, <2>1, BucketProgram DEF Sound
<1>6. \A f \in F : MaySend(BucketCreate, f)
  <2>1. \A f \in F : \E n \in 2 .. 5 : BucketCreate[n] = r(f)
    BY BucketProgram DEF r
  <2>2. \A n \in 2 .. 5 : n \in DOMAIN BucketCreate
    BY BucketProgram
  <2> QED BY <1>1, <2>1, <2>2 DEF MaySend
<1>7. \A n \in DOMAIN BucketCreate : BucketCreate[n].fields \subseteq Fields
  <2>1. \A n \in 1 .. 6 : n = 1 \/ n = 6 \/ n \in 2 .. 5
    OBVIOUS
  <2>2. DOMAIN BucketCreate = 1 .. 6 /\ BucketCreate[1] = Post /\ BucketCreate[6] = Undo
    BY BucketProgram
  <2>3. Post.fields = {} /\ Undo.fields = {}
    BY DEF Post, Undo, Call
  <2>4. \A n \in 2 .. 5 : BucketCreate[n].fields \subseteq F
    BY <1>1, <1>4
  <2>5. F \subseteq Fields
    BY DEF Fields
  <2> QED BY <2>1, <2>2, <2>3, <2>4, <2>5
<1> QED BY <1>3, <1>5, <1>6, <1>7

(* The rows of the table.  Those of a Create without requests but the      *)
(* first, and of these the ones whose Update records what it changed.      *)
Begins(row) ==
  /\ row.learns \subseteq row.reads /\ row.fills = {}
  /\ row.leaves \subseteq row.learns /\ (row.early => row.leaves = {})
  /\ row.optional \ (row.computed \cup row.learns) \subseteq Optionals
  /\ row.fields \subseteq row.learns \cup row.posted
Hides(row) ==
  \A f \in row.fields \ row.reads :
    f # "note" /\ f \in row.posted \cap (row.replace \ row.sets)
Steady(code) == Sound(code) /\ Spaced(code)

LEMMA QuietTracks ==
  ASSUME NEW k, NEW row, Begins(row), Quietly(row.create), Sound(row.update),
         row.prompt \/ row.records = "read" \/ Spaced(row.update),
         Concludes(k, row), Conceals(row)
  PROVE  Tracks(k, row)
<1>1. \A n \in DOMAIN row.create : row.create[n].call # "send"
  BY DEF Quietly, Sends
<1>2. Starts(row)
  BY <1>1 DEF Begins, Starts
<1> QED BY <1>2 DEF Tracks, Quietly

LEMMA ChangedTracks ==
  ASSUME NEW k, NEW row, Begins(row), Hides(row), row.records = "changed",
         Quietly(row.create), Steady(row.update)
  PROVE  Tracks(k, row)
<1>1. Concludes(k, row) /\ Conceals(row)
  BY DEF Concludes, Conceals, Hides
<1> QED BY <1>1, QuietTracks DEF Steady

LEMMA SteadyUpdates ==
  /\ Steady(<<Unsupported>>) /\ Steady(<< >>) /\ \A F : Steady(<<Send(F)>>)
  /\ \A F : Steady(<<IfChanged(F, Send(F))>>)
  /\ Steady(ReplicaUpdate) /\ Steady(ClusterUpdate)
<1>1. /\ Steady(<<Unsupported>>) /\ Steady(<< >>) /\ \A F : Steady(<<Send(F)>>)
      /\ \A F : Steady(<<IfChanged(F, Send(F))>>)
  BY LoneUpdates, Zenon DEF Steady
<1>2. Steady(ReplicaUpdate)
  BY LoneUpdates, Zenon DEF Steady, ReplicaUpdate
<1> QED BY <1>1, <1>2, SteppedUpdates DEF Steady

LEMMA NetworkTracks ==
  /\ Tracks("vpc", Vpc) /\ Tracks("route", Route) /\ Tracks("natGateway", NatGateway)
  /\ Tracks("subnetPool", SubnetPool) /\ Tracks("securityGroup", SecurityGroup)
  /\ Tracks("rule", SecurityGroupRule) /\ Tracks("publicIp", PublicIp)
<1> DEFINE U(row) == Begins(row) /\ Hides(row) /\ row.records = "changed" /\ row.update = <<Unsupported>>
<1>1. U(Vpc) /\ Vpc.create = VpcCreate
  BY DEF Begins, Hides, Vpc, Plain, Fields, Optionals
<1>2. U(Route) /\ Route.create = RouteCreate
  BY DEF Begins, Hides, Route, Plain, Fields, Optionals
<1>3. U(NatGateway) /\ NatGateway.create = <<Post>>
  BY DEF Begins, Hides, NatGateway, Plain, Fields, Optionals
<1>4. U(SubnetPool) /\ SubnetPool.create = <<Post>>
  BY DEF Begins, Hides, SubnetPool, Plain, Fields, Optionals
<1>5. U(SecurityGroup) /\ SecurityGroup.create = <<Post>>
  BY DEF Begins, Hides, SecurityGroup, Plain, Fields, Optionals
<1>6. U(SecurityGroupRule) /\ SecurityGroupRule.create = <<Post>>
  BY DEF Begins, Hides, SecurityGroupRule, Plain, Fields, Optionals
<1>7. U(PublicIp) /\ PublicIp.create = <<Post, Get>>
  BY DEF Begins, Hides, PublicIp, Plain, Fields, Optionals
<1>8. \A k, row : U(row) /\ Quietly(row.create) => Tracks(k, row)
  BY ChangedTracks, SteadyUpdates, Zenon
<1> HIDE DEF U
<1> QED BY <1>1, <1>2, <1>3, <1>4, <1>5, <1>6, <1>7, <1>8, QuietCreates, Zenon

LEMMA DatabaseTracks ==
  /\ Tracks("replica", Replica) /\ Tracks("instanceSnapshot", InstanceSnapshot)
  /\ Tracks("parameterGroup", ParameterGroup) /\ Tracks("parameter", Parameter)
  /\ Tracks("cluster", Cluster)
<1> DEFINE U(row) == Begins(row) /\ Hides(row) /\ row.records = "changed"
<1>1. /\ U(Replica) /\ Replica.create = ReplicaCreate /\ Replica.update = ReplicaUpdate
  BY DEF Begins, Hides, Replica, Resized, Plain, Fields, Optionals
<1>2. /\ U(InstanceSnapshot) /\ InstanceSnapshot.create = <<Post, KeepingPoll>>
      /\ InstanceSnapshot.update = <<Send({"name", "note"})>>
  BY DEF Begins, Hides, InstanceSnapshot, InstanceSnapshotCreate, Plain, Fields, Optionals
<1>3. /\ U(ParameterGroup) /\ ParameterGroup.create = <<Post>>
      /\ ParameterGroup.update = <<Send({"note", "edit"})>>
  BY DEF Begins, Hides, ParameterGroup, Plain, Fields, Optionals
<1>4. /\ U(Parameter) /\ Parameter.create = <<Post>> /\ Parameter.update = <<Send({"edit"})>>
  BY DEF Begins, Hides, Parameter, Plain, Fields, Optionals
<1>5. /\ U(Cluster) /\ Cluster.create = <<Post, Poll>> /\ Cluster.update = ClusterUpdate
  BY DEF Begins, Hides, Cluster, ClusterCreate, ClusterDetail, Plain, Fields, Optionals
<1>6. \A k, row : U(row) /\ Quietly(row.create) /\ Steady(row.update) => Tracks(k, row)
  BY ChangedTracks, Zenon
<1> HIDE DEF U
<1> QED BY <1>1, <1>2, <1>3, <1>4, <1>5, <1>6, QuietCreates, SteadyUpdates, Zenon

(* What their Read does not see is sent with the creation and changed by   *)
(* the one request of the Update, or not at all.                           *)
LEMMA OtherTracks ==
  /\ Tracks("schedule", Schedule) /\ Tracks("registry", Registry) /\ Tracks("sshKey", SshKey)
  /\ Tracks("vmSnapshot", VmSnapshot) /\ Tracks("proxyCache", ProxyCache)
<1>1. /\ Begins(Schedule) /\ Hides(Schedule) /\ Schedule.records = "changed"
      /\ Schedule.create = <<Post, Get>> /\ Schedule.update = <<Unsupported>>
  BY DEF Begins, Hides, Schedule, Plain, Fields, Optionals
<1>2. /\ Begins(Registry) /\ Hides(Registry) /\ Registry.records = "changed"
      /\ Registry.create = <<Post>> /\ Registry.update = <<Unsupported>>
  BY DEF Begins, Hides, Registry, Plain, Fields, Optionals
<1>3. /\ Begins(SshKey) /\ Hides(SshKey) /\ SshKey.records = "changed"
      /\ SshKey.create = <<Post>> /\ SshKey.update = <<Unsupported>>
  BY DEF Begins, Hides, SshKey, Plain, Fields, Optionals
<1>4. /\ Begins(VmSnapshot) /\ VmSnapshot.records = "changed"
      /\ VmSnapshot.create = <<Post>> /\ VmSnapshot.update = << >>
      /\ VmSnapshot.fields \subseteq VmSnapshot.posted \ {"note"}
  BY DEF Begins, VmSnapshot, Plain, Fields, Optionals
<1>5. /\ Begins(ProxyCache) /\ ProxyCache.records = "changed"
      /\ ProxyCache.create = <<Post, Get>> /\ ProxyCache.update = ProxyCacheUpdate
      /\ ProxyCache.fields \subseteq ProxyCache.posted \ {"note"}
  BY DEF Begins, ProxyCache, Plain, Fields, Optionals
<1>6. Len(<< >>) = 0 /\ Len(ProxyCacheUpdate) = 1
  BY DEF ProxyCacheUpdate
<1>7. Conceals(VmSnapshot) /\ Conceals(ProxyCache)
  BY <1>4, <1>5, <1>6 DEF Conceals
<1>8. Tracks("vmSnapshot", VmSnapshot)
  <2>1. Quietly(<<Post>>) /\ Sound(<< >>) /\ Spaced(<< >>)
    BY QuietCreates, SteadyUpdates DEF Steady
  <2>2. Concludes("vmSnapshot", VmSnapshot)
    BY <1>4 DEF Concludes
  <2> QED BY <1>4, <1>7, <2>1, <2>2, QuietTracks
<1>9. Tracks("proxyCache", ProxyCache)
  <2>1. Quietly(<<Post, Get>>) /\ Sound(ProxyCacheUpdate) /\ Spaced(ProxyCacheUpdate)
    BY QuietCreates, SteadyUpdates DEF Steady, ProxyCacheUpdate
  <2>2. Concludes("proxyCache", ProxyCache)
    BY <1>5 DEF Concludes
  <2> QED BY <1>5, <1>7, <2>1, <2>2, QuietTracks
<1>10. Tracks("schedule", Schedule) /\ Tracks("registry", Registry) /\ Tracks("sshKey", SshKey)
  BY <1>1, <1>2, <1>3, QuietCreates, SteadyUpdates, ChangedTracks
<1> QED BY <1>8, <1>9, <1>10

(* Those whose Update records its plan, once it has sent all of it that    *)
(* can change.                                                             *)
LEMMA PlanTracks ==
  Tracks("subnet", Subnet) /\ Tracks("storageSnapshot", StorageSnapshot) /\ Tracks("volume", Volume)
<1>1. /\ Begins(Subnet) /\ Subnet.records = "plan" /\ Subnet.sets = {}
      /\ Subnet.create = <<Post, Get>> /\ Subnet.update = <<Send({"edit"})>>
      /\ Subnet.fields \ Subnet.replace = {"edit"} /\ Subnet.fields \subseteq Subnet.reads
  BY DEF Begins, Subnet, SubnetCreate, SubnetUpdate, Plain, Fields, Optionals
<1>2. /\ Begins(StorageSnapshot) /\ Hides(StorageSnapshot)
      /\ StorageSnapshot.records = "plan" /\ StorageSnapshot.sets = {}
      /\ StorageSnapshot.create = <<Post, KeepingPoll>>
      /\ StorageSnapshot.update = StorageSnapshotUpdate
      /\ StorageSnapshot.fields \ StorageSnapshot.replace = {"edit"}
  BY DEF Begins, Hides, StorageSnapshot, StorageSnapshotCreate, Plain, Fields, Optionals
<1>3. /\ Begins(Volume) /\ Hides(Volume) /\ Volume.records = "plan" /\ Volume.sets = {}
      /\ Volume.create = <<Post, Poll>> /\ Volume.update = VolumeUpdate
      /\ Volume.fields \ Volume.replace = {"name", "edit", "size"}
  BY DEF Begins, Hides, Volume, VolumeCreate, Plain, Fields, Optionals
<1>4. ASSUME NEW k, NEW row, Begins(row), Hides(row), row.records = "plan", row.sets = {},
             Quietly(row.create), Steady(row.update),
             Whole(row.update), \A f \in row.fields \ row.replace : MaySend(row.update, f)
      PROVE  Tracks(k, row)
  <2>1. Concludes(k, row) /\ Conceals(row)
    BY <1>4 DEF Concludes, Conceals, Hides
  <2> QED BY <1>4, <2>1, QuietTracks DEF Steady
<1>5. Tracks("subnet", Subnet)
  <2>1. Hides(Subnet)
    BY <1>1 DEF Hides
  <2>2. Steady(<<Send({"edit"})>>) /\ MaySend(<<Send({"edit"})>>, "edit")
    BY LoneUpdates, SteadyUpdates
  <2>3. Quietly(<<Post, Get>>)
    BY QuietCreates
  <2>4. Whole(<<Send({"edit"})>>)
    BY DEF Whole, Send, Call
  <2> QED BY <1>1, <1>4, <2>1, <2>2, <2>3, <2>4, Zenon
<1>6. Tracks("storageSnapshot", StorageSnapshot)
  <2>1. Steady(StorageSnapshotUpdate) /\ MaySend(StorageSnapshotUpdate, "edit")
    BY LoneUpdates, Zenon DEF StorageSnapshotUpdate, Steady
  <2>2. Quietly(<<Post, KeepingPoll>>)
    BY QuietCreates
  <2>3. Whole(StorageSnapshotUpdate)
    <3> DEFINE c == IfChanged({"edit"}, Send({"edit"}))
               d == IfChanged({"edit"}, [Poll EXCEPT !.error = "goOn"])
    <3>1. c.omitted = {} /\ d.omitted = {}
      BY DEF IfChanged, Send, Poll, Call
    <3>2. StorageSnapshotUpdate = <<c, d>>
      BY DEF StorageSnapshotUpdate
    <3> HIDE DEF c, d
    <3> QED BY <3>1, <3>2 DEF Whole
  <2> QED BY <1>2, <1>4, <2>1, <2>2, <2>3, Zenon
<1>7. Tracks("volume", Volume)
  <2>1. Steady(VolumeUpdate) /\ \A f \in {"name", "edit", "size"} : MaySend(VolumeUpdate, f)
    BY SteppedUpdates DEF Steady
  <2>2. Quietly(<<Post, Poll>>)
    BY QuietCreates
  <2>3. Whole(VolumeUpdate)
    <3> DEFINE S(f) == IfChanged({f}, Send({f}))
               P(f) == IfChanged({f}, Poll)
    <3>1. \A f : S(f).omitted = {} /\ P(f).omitted = {}
      BY DEF IfChanged, Send, Poll, Call
    <3>2. VolumeUpdate = <<S("name"), P("name"), S("edit"), P("edit"), S("size"), P("size")>>
      BY DEF VolumeUpdate
    <3> HIDE DEF S, P
    <3> QED BY <3>1, <3>2 DEF Whole
  <2> QED BY <1>3, <1>4, <2>1, <2>2, <2>3, Zenon
<1> QED BY <1>5, <1>6, <1>7

(* Those whose Update records what it reads when it has waited.            *)
LEMMA ReadTracks ==
  /\ Tracks("virtualMachine", VirtualMachine) /\ Tracks("nodePool", NodePool)
  /\ Tracks("kubernetes", Kubernetes)
<1>1. /\ Begins(VirtualMachine) /\ VirtualMachine.records = "read"
      /\ VirtualMachine.create = <<Post, Poll>> /\ VirtualMachine.update = VmUpdate
      /\ VirtualMachine.fields \subseteq VirtualMachine.reads
  BY DEF Begins, VirtualMachine, VmCreate, VmDetail, Plain, Fields, Optionals
<1>2. /\ Begins(NodePool) /\ NodePool.records = "read"
      /\ NodePool.create = NodePoolCreate /\ NodePool.update = NodePoolUpdate
      /\ NodePool.fields \subseteq NodePool.reads
  BY DEF Begins, NodePool, NodePoolDetail, Plain, Fields, Optionals
<1>3. /\ Begins(Kubernetes) /\ Kubernetes.records = "read"
      /\ Kubernetes.create = <<Post, KeepingPoll>> /\ Kubernetes.update = KubernetesUpdate
      /\ Kubernetes.fields \subseteq Kubernetes.reads
  BY DEF Begins, Kubernetes, KubernetesCreate, KubernetesDetail, Plain, Fields, Optionals
<1>4. ASSUME NEW k \in Waiting \ {"vpc"}, NEW row, Begins(row), row.records = "read",
             Quietly(row.create), Sound(row.update), row.fields \subseteq row.reads
      PROVE  Tracks(k, row)
  <2>1. Concludes(k, row) /\ Conceals(row)
    BY <1>4 DEF Concludes, Conceals
  <2> QED BY <1>4, <2>1, QuietTracks
<1>5. {"virtualMachine", "nodePool", "kubernetes"} \subseteq Waiting \ {"vpc"}
  BY DEF Waiting
<1> QED BY <1>1, <1>2, <1>3, <1>4, <1>5, QuietCreates, LoneUpdates

(* Those whose Create sends more than its first request.                   *)
LEMMA SendingTracks ==
  Tracks("interface", Interface) /\ Tracks("bucket", Bucket)
<1>1. Tracks("interface", Interface)
  <2>1. /\ Interface.create = InterfaceCreate /\ Interface.records = "changed"
        /\ Interface.update = InterfaceUpdate /\ Interface.learns = {"zone"}
        /\ Interface.fills = {} /\ Interface.leaves = {} /\ {"zone", "edit"} \subseteq Interface.reads
        /\ Interface.optional \ (Interface.computed \cup Interface.learns) = {"note"}
        /\ Interface.fields \ (Interface.learns \cup Interface.posted) = {"edit"}
        /\ Interface.fields \subseteq Interface.reads
    BY DEF Interface, Plain, Fields
  <2>2. Starts(Interface)
    BY <2>1, InterfaceCreates DEF Starts, Optionals
  <2>3. Concludes("interface", Interface) /\ Conceals(Interface)
    BY <2>1 DEF Concludes, Conceals
  <2>4. Sound(InterfaceUpdate) /\ Spaced(InterfaceUpdate)
    BY SteadyUpdates DEF Steady, InterfaceUpdate
  <2> QED BY <2>1, <2>2, <2>3, <2>4, InterfaceCreates DEF Tracks
<1>2. Tracks("bucket", Bucket)
  <2>1. /\ Bucket.create = BucketCreate /\ Bucket.records = "changed"
        /\ Bucket.update = BucketUpdate /\ Bucket.learns = {} /\ Bucket.prompt
        /\ Bucket.fills = Optionals /\ Bucket.leaves = {} /\ Bucket.reads = Fields
        /\ Bucket.optional \ (Bucket.computed \cup Bucket.learns) = {}
        /\ Bucket.fields \ (Bucket.learns \cup Bucket.posted) \subseteq {"edit", "size", "note", "once"}
        /\ Bucket.fields \subseteq Bucket.reads
    BY DEF Bucket, Plain, Fields, Optionals
  <2>2. \A n \in DOMAIN BucketCreate :
          BucketCreate[n].call = "send" => BucketCreate[n].fields \subseteq Fields
    BY BucketSettings
  <2>3. Starts(Bucket)
    BY <2>1, <2>2, BucketSettings DEF Starts
  <2>4. Concludes("bucket", Bucket) /\ Conceals(Bucket)
    BY <2>1 DEF Concludes, Conceals
  <2> QED BY <2>1, <2>3, <2>4, BucketSettings DEF Tracks
<1> QED BY <1>1, <1>2

LEMMA TableTracks ==
  \A k \in AllKinds : Tracks(k, Table[k])
<1>1. /\ Table["vpc"] = Vpc /\ Table["subnet"] = Subnet /\ Table["interface"] = Interface
      /\ Table["route"] = Route /\ Table["natGateway"] = NatGateway
      /\ Table["subnetPool"] = SubnetPool /\ Table["securityGroup"] = SecurityGroup
      /\ Table["rule"] = SecurityGroupRule /\ Table["publicIp"] = PublicIp
      /\ Table["replica"] = Replica /\ Table["instanceSnapshot"] = InstanceSnapshot
      /\ Table["parameterGroup"] = ParameterGroup /\ Table["parameter"] = Parameter
      /\ Table["storageSnapshot"] = StorageSnapshot /\ Table["schedule"] = Schedule
      /\ Table["volume"] = Volume /\ Table["vmSnapshot"] = VmSnapshot
      /\ Table["registry"] = Registry /\ Table["proxyCache"] = ProxyCache
      /\ Table["sshKey"] = SshKey /\ Table["nodePool"] = NodePool
      /\ Table["cluster"] = Cluster /\ Table["virtualMachine"] = VirtualMachine
      /\ Table["kubernetes"] = Kubernetes /\ Table["bucket"] = Bucket
  BY DEF Table
<1>2. AllKinds = {"vpc", "subnet", "interface", "route", "natGateway", "subnetPool",
                  "securityGroup", "rule", "publicIp", "replica", "instanceSnapshot",
                  "parameterGroup", "parameter", "storageSnapshot", "schedule", "volume",
                  "vmSnapshot", "registry", "proxyCache", "sshKey", "nodePool", "cluster",
                  "virtualMachine", "kubernetes", "bucket"}
  BY DEF AllKinds, Table
<1> QED BY <1>1, <1>2, NetworkTracks, DatabaseTracks, OtherTracks, PlanTracks, ReadTracks,
           SendingTracks

LEMMA RowTracks ==
  ASSUME LedgerInv
  PROVE  Tracks(kind, R)
<1>1. kind \in AllKinds /\ R = Table[kind]
  BY TableAssumption DEF LedgerInv, Types, ProgramOK
<1> QED BY <1>1, TableTracks

-----------------------------------------------------------------------------
(* What a handler's requests come to.                                      *)

(* A recorded value r of an attribute stands for the value v: an absent    *)
(* description may be an empty one.                                        *)
Agrees(f, r, v) == r = v \/ (f = "note" /\ r = Null /\ v = Empty)

(* What the first calls of a handler have sent, and whether one of them    *)
(* asked for something that none of them has waited for.                   *)
Sent == [k \in Nat |-> UNION {Carried(Code[n]) : n \in DOMAIN Code \cap 1 .. k}]
Awaited(n, k) ==
  \E p \in DOMAIN Code \cap n + 1 .. k : Code[p].call = "poll" /\ Hit(Code[p], Diff)
Pending ==
  {k \in Nat : \E n \in DOMAIN Code \cap 1 .. k :
                  Code[n].call = "send" /\ Hit(Code[n], Diff) /\ ~Awaited(n, k)}

(* The object o of a handler that made its first k calls will have what    *)
(* they sent, and otherwise what it was made with, or was recorded with,   *)
(* unless it failed to do what has not been waited for, or has been        *)
(* answered without.                                                       *)
AsSent(f, k, o) ==
  IF f \in Sent[k] THEN o.goal[f] = Planned[f]
  ELSE IF pc = "create" THEN f \in R.leaves \/ Agrees(f, Answered[f], o.goal[f])
  ELSE f \in R.reads => Agrees(f, known[f], o.goal[f])
Tracked(k, o) ==
  /\ o.attrs = o.goal \/ k \in Pending
  /\ \A f \in Fields \ Sent[k] : o.attrs[f] = o.goal[f]
  /\ \/ \A f \in R.fields : AsSent(f, k, o)
     \/ ~R.prompt /\ o.status = "ERROR" /\ k \in Pending
Following ==
  /\ (pc = "create" /\ made # NoId) \/ (pc = "update" /\ R.records # "read")
  /\ ~stale /\ ~failed
Tracking == Following => Tracked(at - 1, cloud[Target])

(* An object that is done has what it was asked for.                       *)
ReadySteady == \A i \in Ids : cloud[i].status = "READY" => cloud[i].attrs = cloud[i].goal

LEMMA SentSteps ==
  ASSUME NEW k \in Nat \ {0}
  PROVE  /\ Sent[0] = {}
         /\ Sent[k] = Sent[k - 1] \cup (IF k \in DOMAIN Code THEN Carried(Code[k]) ELSE {})
<1>1. /\ Sent[0] = UNION {Carried(Code[n]) : n \in DOMAIN Code \cap 1 .. 0}
      /\ Sent[k] = UNION {Carried(Code[n]) : n \in DOMAIN Code \cap 1 .. k}
      /\ Sent[k - 1] = UNION {Carried(Code[n]) : n \in DOMAIN Code \cap 1 .. k - 1}
  BY DEF Sent
<1>2. 1 .. 0 = {} /\ 1 .. k = (1 .. k - 1) \cup {k}
  OBVIOUS
<1> QED BY <1>1, <1>2

LEMMA PendingSteps ==
  ASSUME NEW k \in Nat \ {0}
  PROVE  /\ 0 \notin Pending
         /\ k \in DOMAIN Code /\ Code[k].call = "send" /\ Hit(Code[k], Diff) => k \in Pending
         /\ /\ k - 1 \in Pending
            /\ ~(k \in DOMAIN Code /\ Code[k].call = "poll" /\ Hit(Code[k], Diff))
            => k \in Pending
         /\ k - 1 \in Pending => Sends(Code)
         /\ /\ Spaced(Code) /\ k \in DOMAIN Code /\ Code[k].call = "send"
            /\ DOMAIN Code = 1 .. Len(Code)
            => k - 1 \notin Pending
<1>1. 0 \notin Pending
  BY DEF Pending
<1>2. ASSUME k \in DOMAIN Code, Code[k].call = "send", Hit(Code[k], Diff)
      PROVE  k \in Pending
  <2>1. ~Awaited(k, k)
    BY DEF Awaited
  <2> QED BY <1>2, <2>1 DEF Pending
<1>3. ASSUME k - 1 \in Pending
      PROVE  \E n \in DOMAIN Code \cap 1 .. k - 1 :
               Code[n].call = "send" /\ Hit(Code[n], Diff) /\ ~Awaited(n, k - 1)
  BY <1>3 DEF Pending
<1>4. ASSUME k - 1 \in Pending,
             ~(k \in DOMAIN Code /\ Code[k].call = "poll" /\ Hit(Code[k], Diff))
      PROVE  k \in Pending
  <2>1. PICK n \in DOMAIN Code \cap 1 .. k - 1 :
               Code[n].call = "send" /\ Hit(Code[n], Diff) /\ ~Awaited(n, k - 1)
    BY <1>3, <1>4
  <2>2. \A p \in n + 1 .. k : p = k \/ p \in n + 1 .. k - 1
    OBVIOUS
  <2>3. ~Awaited(n, k)
    BY <1>4, <2>1, <2>2 DEF Awaited
  <2>4. n \in 1 .. k
    BY <2>1
  <2> QED BY <2>1, <2>3, <2>4 DEF Pending
<1>5. k - 1 \in Pending => Sends(Code)
  BY <1>3 DEF Sends
<1>6. ASSUME Spaced(Code), k \in DOMAIN Code, Code[k].call = "send", k - 1 \in Pending,
             DOMAIN Code = 1 .. Len(Code)
      PROVE  FALSE
  <2>1. PICK n \in DOMAIN Code \cap 1 .. k - 1 :
               Code[n].call = "send" /\ Hit(Code[n], Diff) /\ ~Awaited(n, k - 1)
    BY <1>3, <1>6
  <2>2. PICK p \in n + 1 .. k - 1 : Code[p].call = "poll" /\ Code[p].only = Code[n].only
    BY <1>6, <2>1 DEF Spaced
  <2>3. Hit(Code[p], Diff)
    BY <2>1, <2>2 DEF Hit
  <2>4. p \in DOMAIN Code
    <3>1. n \in Nat /\ n >= 1 /\ k \in 1 .. Len(Code) /\ p \in n + 1 .. k - 1
      BY <1>6, <2>1
    <3> QED BY <1>6, <3>1
  <2> QED BY <2>1, <2>2, <2>3, <2>4 DEF Awaited
<1> QED BY <1>1, <1>2, <1>4, <1>5, <1>6

LEMMA SameTracks ==
  ASSUME UNCHANGED <<pc, R, config, known, entry>>
  PROVE  Sent' = Sent /\ Pending' = Pending /\ Planned' = Planned /\ Answered' = Answered
<1>1. Code' = Code /\ Diff' = Diff
  BY SameDiff
<1>2. Planned' = Planned
  BY DEF Planned, Proposed, InState, HasDiff
<1>3. Answered' = Answered
  BY DEF Answered
<1>4. Sent' = Sent
  BY <1>1, <1>2 DEF Sent, Carried, Differs
<1>5. Pending' = Pending
  BY <1>1 DEF Pending, Awaited
<1> QED BY <1>2, <1>3, <1>4, <1>5

(* A call that is skipped, or is not a request, carries nothing.           *)
LEMMA Uncarried ==
  ASSUME LedgerInv, pc \in {"create", "update"}, at \in DOMAIN Code,
         ~(Cur.call = "send" /\ Hit(Cur, Diff))
  PROVE  Carried(Cur) = {}
<1>1. Tidy(Cur)
  <2>1. Sound(R.create) /\ Sound(R.update)
    BY RowTracks DEF Tracks
  <2> QED BY <2>1 DEF Sound, Cur, Code
<1>2. CASE Cur.call # "send"
  BY <1>1, <1>2 DEF Tidy, Carried
<1>3. CASE Cur.call = "send"
  <2>1. Cur.only # {} /\ \A f \in Cur.only : ~Differs(f)
    BY <1>3, Needing DEF Cur
  <2> QED BY <1>1, <2>1 DEF Tidy, Carried
<1> QED BY <1>2, <1>3

(* What a Create records that ends with an error.                          *)
KeepsMade ==
  /\ pc = "create"
  /\ \E record \in {Answered, Planned, Recorded(cloud[made].attrs, Planned)} : Keep(record)

(* How a call of Create or Update ends: an error that does not end the     *)
(* handler is no request's.                                                *)
GoesOnBadly ==
  GoesOnWith(TRUE) /\ at \in DOMAIN Code /\ Cur.call # "send" /\ UNCHANGED cloud
LEMMA CallTakes ==
  ASSUME LedgerInv, Calls, pc \in {"create", "update"}
  PROVE  \/ Stop \/ KeepsMade \/ GoesOnBadly \/ RollsBack
         \/ /\ Proceeds
            /\ \/ at \notin DOMAIN Code /\ Code = << >> /\ UNCHANGED cloud
               \/ /\ at \in DOMAIN Code /\ Cur.call = "send" /\ Hit(Cur, Diff)
                  /\ Asked(Target)
               \/ /\ at \in DOMAIN Code /\ UNCHANGED cloud
                  /\ ~(Cur.call = "send" /\ Hit(Cur, Diff))
                  /\ Cur.call = "poll" /\ Hit(Cur, Diff)
                       => cloud[Target].status = "READY" \/ ~Sends(Code)
<1> DEFINE Waited == \/ Stop \/ KeepsMade \/ GoesOnBadly \/ RollsBack
                     \/ /\ Proceeds /\ at \in DOMAIN Code /\ UNCHANGED cloud
                        /\ ~(Cur.call = "send" /\ Hit(Cur, Diff))
                        /\ Cur.call = "poll" /\ Hit(Cur, Diff)
                             => cloud[Target].status = "READY" \/ ~Sends(Code)
<1>1. Sound(Code) /\ DOMAIN Code = 1 .. Len(Code)
  <2>1. Sound(R.create) /\ Sound(R.update)
    BY RowTracks DEF Tracks
  <2> QED BY <2>1, CodeTyped DEF Code, LedgerInv, Types, HandlerPCs
<1>2. ASSUME at \in DOMAIN Code
      PROVE  /\ Cur.error # "ignore" /\ (Cur.late = "error" \/ ~Sends(Code))
             /\ Cur.call = "send" => Cur.error # "goOn"
  BY <1>1, <1>2 DEF Sound, Tidy, Cur
<1>3. at \in DOMAIN Code => (Hit(Cur, Diff) <=> Needed)
  BY Needing DEF Needed, Cur
<1>4. at \in DOMAIN Code => Cur.call \notin {"delete", "deleteAgain", "pollGone"}
  BY CallPlaces DEF LedgerInv, HandlerPCs
<1>5. ~Deletions
  <2>1. ~(At("delete") \/ At("deleteAgain") \/ At("pollGone"))
    BY <1>4 DEF At
  <2> QED BY <2>1 DEF Deletions, DeleteAccepted, DeleteReplyLost, DeleteRefused,
             DeleteAgainGone, DeleteAgainDone, DeleteAgainFails, PollGoneDone, PollGoneFails
<1>6. ASSUME at \in DOMAIN Code, CallFails, pc = "create" \/ Cur.error \in {"stop", "goOn"},
             Cur.call = "send" \/ UNCHANGED cloud
      PROVE  Waited
  BY <1>2, <1>6 DEF CallFails, KeepsMade, GoesOnBadly, GoesOnWith, RollsBack
<1>7. at \in DOMAIN Code /\ pc = "update" => Cur.error \in {"stop", "goOn"}
  BY CallPlaces DEF LedgerInv, HandlerPCs
<1>8. ASSUME Stop PROVE Waited
  BY <1>8
<1>9. CASE Skip
  <2>1. at \in DOMAIN Code /\ ~Needed /\ Proceeds /\ UNCHANGED cloud
    BY <1>9 DEF Skip, Needed, Quiet
  <2> QED BY <1>3, <2>1
<1>10. CASE NoCalls
  <2>1. Code = << >> /\ UNCHANGED cloud /\ Proceeds
    BY <1>10 DEF NoCalls, Quiet
  <2> QED BY <2>1
<1>11. CASE UnsupportedFails \/ UndoDone \/ UndoFails
  BY <1>8, <1>11 DEF UnsupportedFails, UndoDone, UndoFails
<1>12. CASE GetOk \/ LookupOk \/ UndoNothing
  BY <1>12 DEF GetOk, LookupOk, UndoNothing, At, Quiet
<1>13. CASE PollReady
  BY <1>13 DEF PollReady, At, Quiet
<1>14. CASE GetFails \/ PollFails \/ SendReplyLost \/ SendRefused
  BY <1>6, <1>7, <1>14 DEF GetFails, PollFails, SendReplyLost, SendRefused, Asked, At
<1>15. CASE SendAccepted
  <2>1. At("send") /\ Needed /\ Proceeds /\ Asked(Target)
    BY <1>15 DEF SendAccepted, Asked
  <2> QED BY <1>3, <2>1 DEF At
<1>16. CASE Timeout
  <2>1. At("poll") /\ at \in DOMAIN Code /\ Cur.call = "poll" /\ UNCHANGED cloud
    BY <1>4, <1>16 DEF Timeout, At, Quiet
  <2>2. CASE Cur.late = "error"
    <3>1. CallFails
      BY <1>16, <2>1, <2>2 DEF Timeout
    <3> QED BY <1>6, <1>7, <2>1, <3>1
  <2>3. CASE Cur.late # "error"
    BY <1>2, <1>16, <2>1, <2>3 DEF Timeout
  <2> QED BY <2>2, <2>3
<1> QED BY <1>5, <1>9, <1>10, <1>11, <1>12, <1>13, <1>14, <1>15, <1>16
        DEF Calls, Questions, Requests

(* A call that goes on leaves the object as the requests so far make it.   *)
LEMMA CallTracks ==
  ASSUME LedgerInv, ReadySteady, Calls, pc \in {"create", "update"}, at \in Nat \ {0},
         R.prompt \/ Spaced(Code), Tracked(at - 1, cloud[Target]), ~stale'
  PROVE  GoesOnWith(TRUE) \/ RollsBack \/ (Proceeds /\ Tracked(at, cloud'[Target]))
<1>1. SUFFICES ASSUME ~GoesOnWith(TRUE), ~RollsBack
               PROVE  Proceeds /\ Tracked(at, cloud'[Target])
  OBVIOUS
<1>2. InCall /\ R.fields \subseteq Fields
  BY CallsOutcome, RowHides DEF LedgerInv
<1>3. Target \in Ids /\ cloud[Target] \in Object /\ cloud \in [Ids -> Object]
  <2>1. Len(Code) \in Nat /\ (pc = "create" => at # 1)
    BY <1>2, CodeTyped DEF InCall, LedgerInv, Types, Code
  <2>2. Target \in Ids
    BY <1>2, <2>1 DEF Target, InCall, HandlerPCs, LedgerInv, Types, Placed, TypeOK
  <2> QED BY <2>2 DEF LedgerInv, Types, TypeOK
<1>4. Sound(Code) /\ DOMAIN Code = 1 .. Len(Code)
  <2>1. Sound(R.create) /\ Sound(R.update)
    BY RowTracks DEF Tracks
  <2> QED BY <2>1, CodeTyped DEF Code, LedgerInv, Types, HandlerPCs
<1>5. /\ Sent[at] = Sent[at - 1] \cup (IF at \in DOMAIN Code THEN Carried(Cur) ELSE {})
      /\ at \in DOMAIN Code /\ Cur.call = "send" /\ Hit(Cur, Diff) => at \in Pending
      /\ at - 1 \in Pending /\ ~(at \in DOMAIN Code /\ Cur.call = "poll" /\ Hit(Cur, Diff))
           => at \in Pending
      /\ at - 1 \in Pending => Sends(Code)
      /\ Spaced(Code) /\ at \in DOMAIN Code /\ Cur.call = "send" => at - 1 \notin Pending
  BY <1>4, SentSteps, PendingSteps DEF Cur
<1>6. CASE Proceeds /\ at \notin DOMAIN Code /\ UNCHANGED cloud
  <2>1. Sent[at] = Sent[at - 1] /\ (at - 1 \in Pending => at \in Pending)
    BY <1>5, <1>6
  <2>2. cloud'[Target] = cloud[Target]
    BY <1>6
  <2> QED BY <1>6, <2>1, <2>2 DEF Tracked, AsSent
<1>7. CASE /\ Proceeds /\ at \in DOMAIN Code /\ UNCHANGED cloud
           /\ ~(Cur.call = "send" /\ Hit(Cur, Diff))
           /\ Cur.call = "poll" /\ Hit(Cur, Diff)
                => cloud[Target].status = "READY" \/ ~Sends(Code)
  <2>1. Carried(Cur) = {}
    BY <1>7, Uncarried
  <2>2. Sent[at] = Sent[at - 1] /\ cloud'[Target] = cloud[Target]
    BY <1>5, <1>7, <2>1
  <2>3. CASE ~(Cur.call = "poll" /\ Hit(Cur, Diff))
    <3>1. at - 1 \in Pending => at \in Pending
      BY <1>5, <2>3
    <3> QED BY <1>7, <2>2, <3>1 DEF Tracked, AsSent
  <2>4. CASE Cur.call = "poll" /\ Hit(Cur, Diff)
    <3>1. \/ cloud[Target].status = "READY" /\ cloud[Target].attrs = cloud[Target].goal
          \/ at - 1 \notin Pending
      BY <1>3, <1>5, <1>7, <2>4 DEF ReadySteady
    <3>2. /\ cloud[Target].attrs = cloud[Target].goal
          /\ \A f \in R.fields : AsSent(f, at - 1, cloud[Target])
      BY <3>1 DEF Tracked
    <3> QED BY <1>7, <2>2, <3>2 DEF Tracked, AsSent
  <2> QED BY <2>3, <2>4
<1>8. CASE /\ Proceeds /\ at \in DOMAIN Code /\ Cur.call = "send" /\ Hit(Cur, Diff)
           /\ Asked(Target)
  <2> DEFINE o == cloud[Target]
             p == cloud'[Target]
  <2>1. /\ \A f \in Fields : p.goal[f] = IF f \in Carried(Cur) THEN Planned[f] ELSE o.goal[f]
        /\ IF R.prompt THEN p.attrs = p.goal ELSE p.attrs = o.attrs
    BY <1>3, <1>8 DEF Asked, Object
  <2>2. at \in Pending /\ Sent[at] = Sent[at - 1] \cup Carried(Cur)
    BY <1>5, <1>8
  <2>3. \A f \in R.fields : AsSent(f, at - 1, o)
    <3>1. R.prompt \/ at - 1 \notin Pending
      BY <1>5, <1>8
    <3> QED BY <3>1 DEF Tracked
  <2>4. \A f \in Fields \ Sent[at - 1] : o.attrs[f] = o.goal[f]
    BY DEF Tracked
  <2> HIDE DEF o, p
  <2>5. \A f \in Fields \ Sent[at] : p.attrs[f] = p.goal[f]
    BY <2>1, <2>2, <2>4
  <2>6. \A f \in R.fields : AsSent(f, at, p)
    BY <1>2, <2>1, <2>2, <2>3 DEF AsSent
  <2> QED BY <1>8, <2>2, <2>5, <2>6 DEF Tracked, p
<1> QED BY <1>1, <1>6, <1>7, <1>8, CallTakes DEF Stop, Fail, KeepsMade, Keep, GoesOnBadly

(* So is what a Create is answered.                                        *)
LEMMA PostTracks ==
  ASSUME LedgerInv, NEW i \in Ids, PostAccepted(i)
  PROVE  /\ pc = "create" /\ at = 1 /\ entry = NoId
         /\ cloud'[i].attrs = cloud'[i].goal /\ Tracked(1, cloud'[i])
         /\ \A f \in Fields \ ({"note"} \cup R.leaves) : cloud'[i].goal[f] = Answered[f]
<1>1. /\ pc = "create" /\ at = 1 /\ at \in DOMAIN Code /\ entry = NoId
      /\ Cur.call = "post" /\ Posted(i)
  <2>1. At("post") /\ Posted(i)
    BY DEF PostAccepted, Posted
  <2>2. pc \in HandlerPCs /\ at \in DOMAIN Code /\ Cur.call = "post"
    BY <2>1 DEF At
  <2> QED BY <2>1, <2>2, CallPlaces DEF LedgerInv, Types, Placed
<1>2. PICK note \in Notes, left \in Left : cloud' = [cloud EXCEPT ![i] = Made(note, left)]
  BY <1>1 DEF Posted
<1> DEFINE attrs == [f \in Fields |-> IF f = "note" THEN note
                                     ELSE IF f \in left THEN Null ELSE Answered[f]]
<1>4. cloud'[i].attrs = attrs /\ cloud'[i].goal = attrs
  BY <1>2 DEF Made, LedgerInv, Types, TypeOK
<1>5. /\ cloud'[i].attrs = cloud'[i].goal
      /\ \A f \in Fields \ ({"note"} \cup R.leaves) : cloud'[i].goal[f] = Answered[f]
      /\ cloud'[i].goal["note"] = note
  BY <1>4 DEF Left, Fields
<1> HIDE DEF attrs
<1>6. Agrees("note", Answered["note"], note)
  BY <1>2 DEF Notes, Agrees
<1>7. Sent[1] = {}
  <2>1. Tidy(Cur)
    BY <1>1, RowTracks DEF Tracks, Sound, Cur, Code
  <2>2. Carried(Cur) = {}
    BY <1>1, <2>1 DEF Tidy, Carried
  <2>3. Sent[0] = {} /\ Sent[1] = Sent[1 - 1] \cup (IF 1 \in DOMAIN Code THEN Carried(Code[1]) ELSE {})
    BY SentSteps
  <2> QED BY <1>1, <2>2, <2>3 DEF Cur
<1>8. \A f \in R.fields : AsSent(f, 1, cloud'[i])
  <2>1. R.fields \subseteq Fields
    BY RowHides
  <2>2. \A f \in Fields : f \in R.leaves \/ Agrees(f, Answered[f], cloud'[i].goal[f])
    BY <1>5, <1>6 DEF Agrees
  <2> QED BY <1>1, <1>7, <2>1, <2>2 DEF AsSent
<1> QED BY <1>1, <1>5, <1>8 DEF Tracked

-----------------------------------------------------------------------------
(* What holds at every moment.                                             *)

LEMMA ServiceMoves ==
  ASSUME LedgerInv, Service
  PROVE  \E i \in Ids :
           /\ \A j \in Ids \ {i} : cloud'[j] = cloud[j]
           /\ UNCHANGED <<entry, known, made, pc, config, program>>
           /\ \/ /\ cloud[i].status = "PENDING" /\ cloud'[i].status = "READY"
                 /\ cloud'[i].attrs = cloud[i].goal /\ cloud'[i].goal = cloud[i].goal
                 /\ UNCHANGED <<disclosed, stale, settled, faults>>
              \/ /\ ~R.prompt /\ cloud[i].status \in {"PENDING", "DELETING"}
                 /\ cloud'[i].status = "ERROR"
                 /\ cloud'[i].attrs = cloud[i].attrs /\ cloud'[i].goal = cloud[i].attrs
                 /\ UNCHANGED <<disclosed, stale, settled>> /\ Fault
              \/ cloud'[i].status = "GONE" /\ Behind(i) /\ UNCHANGED faults
              \/ Behind(i) /\ Fault /\ Exists(i)' /\ cloud'[i].status = "DELETING"
              \/ /\ Behind(i) /\ Fault /\ Exists(i)' /\ cloud[i].status = "READY"
                 /\ cloud[i].attrs = cloud[i].goal => cloud'[i].attrs = cloud'[i].goal
<1>1. cloud \in [Ids -> Object]
  BY DEF LedgerInv, Types, TypeOK
<1>2. PICK i \in Ids :
        \/ Settle(i) \/ Vanish(i) \/ Break(i) \/ ExternalDelete(i)
        \/ \E f \in Fields, v \in Values : Drift(i, f, v)
  BY DEF Service
<1>3. /\ UNCHANGED <<entry, known, made, pc, config, program>>
      /\ \A j \in Ids \ {i} : cloud'[j] = cloud[j]
  <2>1. \E o : cloud' = [cloud EXCEPT ![i] = o]
    BY <1>1, <1>2 DEF Settle, Vanish, Break, ExternalDelete, Drift, Completes,
              Disappears, Breaks, DeletedElsewhere, Drifts
  <2>2. UNCHANGED <<entry, known, made, pc, config, program>>
    BY <1>2 DEF Settle, Vanish, Break, ExternalDelete, Drift, Completes,
              Disappears, Breaks, DeletedElsewhere, Drifts, ServiceOnly, env
  <2> QED BY <1>1, <2>1, <2>2
<1>4. CASE Settle(i)
  BY <1>1, <1>3, <1>4 DEF Settle, Completes, NoFault, Object
<1>5. CASE Vanish(i)
  BY <1>1, <1>3, <1>5 DEF Vanish, Disappears, NoFault, NoObject
<1>6. CASE Break(i)
  BY <1>1, <1>3, <1>6 DEF Break, Breaks, Object
<1>7. CASE ExternalDelete(i)
  BY <1>1, <1>3, <1>7 DEF ExternalDelete, DeletedElsewhere, Object, Exists
<1>8. ASSUME NEW f \in Fields, NEW v \in Values, Drift(i, f, v)
      PROVE  /\ Behind(i) /\ Fault /\ cloud[i].status = "READY" /\ Exists(i)'
             /\ cloud[i].attrs = cloud[i].goal => cloud'[i].attrs = cloud'[i].goal
  <2>1. /\ cloud' = [cloud EXCEPT ![i].attrs[f] = v, ![i].goal[f] = v]
        /\ Behind(i) /\ Fault /\ cloud[i].status = "READY"
    BY <1>8 DEF Drift, Drifts
  <2>2. /\ cloud'[i].attrs = [cloud[i].attrs EXCEPT ![f] = v]
        /\ cloud'[i].goal = [cloud[i].goal EXCEPT ![f] = v]
        /\ cloud'[i].status = cloud[i].status
    BY <1>1, <2>1 DEF Object
  <2> QED BY <2>1, <2>2 DEF Exists
<1> QED BY <1>2, <1>3, <1>4, <1>5, <1>6, <1>7, <1>8

(* The steps of Terraform, and of the handlers, that ask for nothing.      *)
Plans == PlanNothing \/ PlanCreate \/ PlanUpdate \/ PlanDelete
Posts == PostRefused \/ \E i \in Ids : PostAccepted(i) \/ PostReplyLost(i)
Reads == ReadOk \/ ReadFails \/ ReadRemoves \/ (\E f \in Fields : ReadMisses(f))
Imports == ImportOk \/ ImportFails

LEMMA NextSteps ==
  ASSUME [Next]_allVars
  PROVE  \/ Calls \/ Posts \/ Plans \/ Reads \/ Imports \/ User \/ Stopped \/ Service
         \/ UNCHANGED allVars
BY DEF Next, Handler, Calls, Questions, Requests, Deletions, Posts, Plans, Reads, Imports

LEMMA CloudStays ==
  Plans \/ Reads \/ Imports \/ User \/ Stopped \/ PostRefused => UNCHANGED cloud
BY DEF Plans, PlanNothing, PlanCreate, PlanUpdate, PlanDelete, NothingPlanned, CreatePlanned,
       UpdatePlanned, DeletePlanned, Reads, ReadOk, ReadFails, ReadRemoves, ReadMisses,
       Imports, ImportOk, ImportFails, User, EditConfig, StartRun, StartImport, Stopped, Crash,
       PostRefused

(* What a call changes at the service.                                     *)
LEMMA CallsChange ==
  ASSUME LedgerInv, Calls
  PROVE  \/ UNCHANGED cloud
         \/ Asked(Target) /\ (SendAccepted \/ Fault)
         \/ \E i \in Ids : cloud' = [cloud EXCEPT ![i].status = "DELETING"]
<1>1. cloud \in [Ids -> Object]
  BY DEF LedgerInv, Types, TypeOK
<1>2. InCall /\ Outcome
  BY CallsOutcome DEF LedgerInv
<1>3. entry \in Ids \/ entry = NoId
  BY DEF LedgerInv, Types, TypeOK
<1>4. CASE RequestDelete /\ Deletions
  <2>1. pc = "delete"
    <3>1. \E c \in {"delete", "deleteAgain", "pollGone"} : At(c)
      BY <1>4 DEF Deletions, DeleteAccepted, DeleteReplyLost, DeleteRefused,
        DeleteAgainGone, DeleteAgainDone, DeleteAgainFails, PollGoneDone, PollGoneFails
    <3> QED BY <3>1, CallPlaces DEF LedgerInv, At
  <2> QED BY <1>3, <1>4, <2>1 DEF RequestDelete, LedgerInv, Types, Placed
<1>5. CASE UndoDone
  <2>1. UNCHANGED cloud \/ cloud' = [cloud EXCEPT ![made].status = "DELETING"]
    BY <1>5 DEF UndoDone
  <2>2. made \in Ids \/ [cloud EXCEPT ![made].status = "DELETING"] = cloud
    BY <1>1
  <2> QED BY <2>1, <2>2
<1>6. CASE SendAccepted \/ SendReplyLost
  BY <1>6 DEF SendAccepted, SendReplyLost
<1> QED BY <1>4, <1>5, <1>6
    DEF Calls, Questions, Skip, NoCalls, UnsupportedFails, GetOk, LookupOk, GetFails,
        PollReady, PollFails, UndoNothing, UndoFails, Quiet, Requests, SendAccepted,
        SendReplyLost, SendRefused, Deletions, DeleteAccepted, DeleteReplyLost,
        DeleteRefused, DeleteAgainGone, DeleteAgainDone, DeleteAgainFails,
        PollGoneDone, PollGoneFails, Timeout

LEMMA SteadyKept ==
  ASSUME LedgerInv, ReadySteady, [Next]_allVars
  PROVE  ReadySteady'
<1>0. cloud \in [Ids -> Object]
  BY DEF LedgerInv, Types, TypeOK
<1>1. ASSUME UNCHANGED cloud PROVE ReadySteady'
  BY <1>1 DEF ReadySteady
<1>2. CASE Calls
  <2>1. \/ UNCHANGED cloud \/ Asked(Target)
        \/ \E i \in Ids : cloud' = [cloud EXCEPT ![i].status = "DELETING"]
    BY <1>2, CallsChange
  <2>2. CASE Asked(Target)
    <3>1. Accepted = "READY" => R.prompt
      BY DEF Accepted
    <3> DEFINE goal == [f \in Fields |-> IF f \in Carried(Cur) THEN Planned[f]
                                       ELSE cloud[Target].goal[f]]
    <3>2. cloud' = [cloud EXCEPT ![Target].status = Accepted, ![Target].goal = goal,
                     ![Target].attrs = IF R.prompt THEN goal ELSE cloud[Target].attrs]
      BY <2>2 DEF Asked
    <3> HIDE DEF goal
    <3>3. \A i \in Ids : \/ cloud'[i] = cloud[i]
                         \/ /\ cloud'[i].status = Accepted /\ cloud'[i].goal = goal
                            /\ R.prompt => cloud'[i].attrs = goal
      BY <1>0, <3>2 DEF Object
    <3> QED BY <3>1, <3>3 DEF ReadySteady
  <2>3. ASSUME NEW i \in Ids, cloud' = [cloud EXCEPT ![i].status = "DELETING"]
        PROVE  ReadySteady'
    <3>1. cloud'[i].status = "DELETING" /\ \A j \in Ids \ {i} : cloud'[j] = cloud[j]
      BY <1>0, <2>3 DEF Object
    <3> QED BY <3>1 DEF ReadySteady
  <2> QED BY <1>1, <2>1, <2>2, <2>3
<1>3. CASE \E i \in Ids : PostAccepted(i) \/ PostReplyLost(i)
  <2>1. PICK i \in Ids, note \in Notes, left \in Left :
          cloud' = [cloud EXCEPT ![i] = Made(note, left)]
    BY <1>3 DEF PostAccepted, PostReplyLost, Posted
  <2>2. cloud'[i].attrs = cloud'[i].goal /\ \A j \in Ids \ {i} : cloud'[j] = cloud[j]
    BY <1>0, <2>1 DEF Made
  <2> QED BY <2>2 DEF ReadySteady
<1>4. CASE Service
  <2>1. PICK i \in Ids :
           /\ \A j \in Ids \ {i} : cloud'[j] = cloud[j]
           /\ \/ cloud'[i].status # "READY"
              \/ cloud'[i].attrs = cloud'[i].goal
              \/ /\ cloud[i].status = "READY"
                 /\ cloud[i].attrs = cloud[i].goal => cloud'[i].attrs = cloud'[i].goal
    BY <1>4, ServiceMoves, Zenon
  <2> QED BY <2>1 DEF ReadySteady
<1>5. CASE UNCHANGED allVars
  BY <1>1, <1>5 DEF allVars, vars
<1> QED BY <1>1, <1>2, <1>3, <1>4, <1>5, NextSteps, CloudStays DEF Posts

(* Nothing is remembered of what is not recorded, and the configuration is *)
(* one that the schema accepts.                                            *)
Forgotten == entry = NoId => known = Default
Suited == Suits(config.attrs, kind)

LEMMA ForgottenKept ==
  ASSUME LedgerInv, Forgotten, [Next]_allVars
  PROVE  Forgotten'
<1>0. \A i \in Ids : i # NoId
  BY IdsAssumption
<1>1. CASE Calls
  <2>1. InCall /\ Outcome
    BY <1>1, CallsOutcome DEF LedgerInv
  <2>2. pc = "create" => made \in Ids
    <3>1. Len(Code) \in Nat /\ (pc = "create" => at # 1)
      BY <2>1, CodeTyped DEF InCall, LedgerInv, Types, Code
    <3> QED BY <3>1 DEF LedgerInv, Types, Placed, TypeOK
  <2> QED BY <1>0, <2>1, <2>2 DEF InCall, HandlerPCs, Outcome, Stop, Fail, Keeps, Keep,
              RollsBack, FindsNothing, DeleteReturns, GoesOnWith, GoesOn, Ends, Returns,
              CreateReturns, UpdateReturns, Forgotten, LedgerInv, Types, Placed
<1>2. CASE Posts
  <2>1. pc = "create"
    <3>1. At("post")
      BY <1>2 DEF Posts, PostRefused, PostAccepted, PostReplyLost, Posted
    <3>2. pc \in HandlerPCs /\ at \in DOMAIN Code /\ Cur.call = "post"
      BY <3>1 DEF At
    <3> QED BY <3>2, CallPlaces DEF LedgerInv
  <2> QED BY <1>0, <1>2, <2>1 DEF Posts, PostRefused, PostAccepted, PostReplyLost, Stop, Fail,
                            GoesOn, Returns, CreateReturns, Forgotten
<1>3. CASE Plans
  BY <1>3 DEF Plans, PlanNothing, PlanCreate, PlanUpdate, PlanDelete, NothingPlanned,
              CreatePlanned, UpdatePlanned, DeletePlanned, Goto, Forgotten
<1>4. CASE Reads
  BY <1>4 DEF Reads, ReadOk, ReadFails, ReadRemoves, ReadMisses, Stop, Fail, Forgotten,
              LedgerInv, Types, Placed
<1>5. CASE Imports
  BY <1>5 DEF Imports, ImportOk, ImportFails, Forgotten, LedgerInv, Types, Placed
<1>6. CASE User \/ Stopped
  BY <1>6 DEF User, EditConfig, StartRun, StartImport, Goto, Stopped, Crash, Fail, Forgotten
<1>7. CASE Service
  BY <1>7, ServiceMoves DEF Forgotten
<1>8. CASE UNCHANGED allVars
  BY <1>8 DEF allVars, vars, Forgotten
<1> QED BY <1>1, <1>2, <1>3, <1>4, <1>5, <1>6, <1>7, <1>8, NextSteps

LEMMA SuitedKept ==
  ASSUME LedgerInv, Suited, [Next]_allVars
  PROVE  Suited'
<1>1. ASSUME UNCHANGED <<config, kind>> PROVE Suited'
  BY <1>1 DEF Suited, Suits
<1>2. CASE Calls
  <2>1. Outcome
    BY <1>2, CallsOutcome DEF LedgerInv
  <2>2. UNCHANGED <<config, kind>>
    BY <2>1 DEF Outcome, Stop, Fail, Keeps, Keep, RollsBack, FindsNothing, GoesOnWith,
                GoesOn, env
  <2> QED BY <1>1, <2>2
<1>3. CASE Posts \/ Plans \/ Reads \/ Imports \/ Stopped
  <2>1. UNCHANGED <<config, kind>>
    BY <1>3 DEF Posts, PostRefused, PostAccepted, PostReplyLost, Stop, Fail, GoesOn, env,
            Plans, PlanNothing, PlanCreate, PlanUpdate, PlanDelete, NothingPlanned,
            CreatePlanned, UpdatePlanned, DeletePlanned, Goto, program,
            Reads, ReadOk, ReadFails, ReadRemoves, ReadMisses, Imports, ImportOk, ImportFails,
            Stopped, Crash
  <2> QED BY <1>1, <2>1
<1>4. CASE User
  <2>1. CASE EditConfig /\ Suits(config'.attrs, kind) /\ UNCHANGED program
    BY <2>1 DEF program, Suited, Suits
  <2>2. CASE UNCHANGED <<config, kind>>
    BY <1>1, <2>2
  <2> QED BY <1>4, <2>1, <2>2 DEF User, StartRun, StartImport, Goto, env, program
<1>5. CASE Service
  BY <1>1, <1>5, ServiceMoves DEF program
<1>6. CASE UNCHANGED allVars
  BY <1>1, <1>6 DEF allVars, vars, program
<1> QED BY <1>2, <1>3, <1>4, <1>5, <1>6, NextSteps

(* The service leaves what a handler follows as its requests make it, or   *)
(* has moved behind its back.                                              *)
LEMMA ServiceTracks ==
  ASSUME LedgerInv, Service, Target \in Ids, ~stale', NEW k, Tracked(k, cloud[Target])
  PROVE  Tracked(k, cloud'[Target])
<1>1. Target \in {entry, made} /\ R.fields \subseteq Fields
  BY RowHides DEF Target
<1>2. PICK i \in Ids :
         /\ \A j \in Ids \ {i} : cloud'[j] = cloud[j]
         /\ \/ /\ cloud[i].status = "PENDING" /\ cloud'[i].status = "READY"
               /\ cloud'[i].attrs = cloud[i].goal /\ cloud'[i].goal = cloud[i].goal
            \/ /\ ~R.prompt /\ cloud[i].status \in {"PENDING", "DELETING"}
               /\ cloud'[i].status = "ERROR"
               /\ cloud'[i].attrs = cloud[i].attrs /\ cloud'[i].goal = cloud[i].attrs
            \/ Behind(i)
  BY ServiceMoves, Zenon
<1>3. CASE i # Target
  <2>1. cloud'[Target] = cloud[Target]
    BY <1>2, <1>3
  <2> QED BY <2>1 DEF Tracked, AsSent
<1>4. CASE Behind(Target)
  BY <1>1, <1>4 DEF Behind
<1>5. CASE /\ i = Target
           /\ cloud[i].status = "PENDING" /\ cloud'[i].status = "READY"
           /\ cloud'[i].attrs = cloud[i].goal /\ cloud'[i].goal = cloud[i].goal
  <2>1. \A f \in R.fields : AsSent(f, k, cloud[Target])
    BY <1>5 DEF Tracked
  <2> QED BY <1>5, <2>1 DEF Tracked, AsSent
<1>6. CASE /\ i = Target
           /\ ~R.prompt /\ cloud[i].status \in {"PENDING", "DELETING"}
           /\ cloud'[i].status = "ERROR"
           /\ cloud'[i].attrs = cloud[i].attrs /\ cloud'[i].goal = cloud[i].attrs
  <2>1. \A f \in R.fields : AsSent(f, k, cloud[Target])
    BY <1>6 DEF Tracked
  <2>2. cloud'[Target].goal = cloud[Target].goal \/ k \in Pending
    BY <1>6 DEF Tracked
  <2> QED BY <1>6, <2>1, <2>2 DEF Tracked, AsSent
<1> QED BY <1>2, <1>3, <1>4, <1>5, <1>6

LEMMA TrackingKept ==
  ASSUME LedgerInv, SeenInv, ReadySteady, Tracking, [Next]_allVars
  PROVE  Tracking'
<1>1. SUFFICES ASSUME Following'
               PROVE  Tracked(at - 1, cloud[Target])'
  BY DEF Tracking
<1>2. ASSUME Following, UNCHANGED <<pc, R, config, known, entry, made>>, at' \in Nat \ {0},
             Tracked(at' - 1, cloud'[Target])
      PROVE  Tracked(at - 1, cloud[Target])'
  <2>1. Target' = Target
    BY <1>2 DEF Target
  <2>2. Sent' = Sent /\ Pending' = Pending /\ Planned' = Planned /\ Answered' = Answered
    BY <1>2, SameTracks
  <2> QED BY <1>2, <2>1, <2>2 DEF Tracked, AsSent
<1>3. Following => Target \in Ids /\ at \in Nat \ {0}
  <2>1. pc \in HandlerPCs => at \in 1 .. Len(Code) + 1 /\ Len(Code) \in Nat
    BY CodeTyped DEF LedgerInv, Types, TypeOK, Code
  <2> QED BY <2>1 DEF Following, HandlerPCs, Target, LedgerInv, Types, Placed, TypeOK
<1>4. CASE Calls
  <2>1. InCall /\ Outcome
    BY <1>4, CallsOutcome DEF LedgerInv
  <2>2. /\ Following /\ at' = at + 1 /\ ~GoesOnWith(TRUE) /\ ~RollsBack
        /\ UNCHANGED <<pc, R, config, known, entry, made>>
    <3>1. pc # "delete"
      BY <1>1, <2>1 DEF Following, Outcome, Stop, Fail, Keeps, Keep, RollsBack, FindsNothing,
           DeleteReturns, GoesOnWith, GoesOn, Ends, Returns, LedgerInv, Types, Placed
    <3> QED BY <1>1, <2>1, <3>1
            DEF Following, InCall, HandlerPCs, Outcome, Stop, Fail, Keeps, Keep, RollsBack,
                FindsNothing, DeleteReturns, GoesOnWith, GoesOn, Ends, Returns,
                CreateReturns, UpdateReturns, env
  <2>3. R.prompt \/ Spaced(Code)
    BY <2>2, RowTracks DEF Tracks, Following, Code
  <2>4. Tracked(at, cloud'[Target])
    BY <1>1, <1>3, <1>4, <2>2, <2>3, CallTracks DEF Tracking, Following
  <2>5. at' \in Nat \ {0} /\ at' - 1 = at
    BY <1>3, <2>2
  <2> QED BY <1>2, <2>2, <2>4, <2>5
<1>5. CASE Posts
  <2>1. PICK i \in Ids : PostAccepted(i)
    BY <1>1, <1>5 DEF Posts, PostRefused, PostReplyLost, Stop, Fail, Following
  <2>2. pc = "create" /\ at = 1 /\ Tracked(1, cloud'[i]) /\ GoesOn(i, failed \/ Sourceless)
    BY <2>1, PostTracks DEF PostAccepted
  <2>3. pc' = "create" /\ at' = 2 /\ made' = i /\ UNCHANGED <<R, config, known, entry>>
    BY <1>1, <2>2 DEF GoesOn, Returns, CreateReturns, Following, env
  <2>4. i # NoId
    BY IdsAssumption
  <2>5. Sent' = Sent /\ Pending' = Pending /\ Planned' = Planned /\ Answered' = Answered
    BY <2>2, <2>3, SameTracks
  <2>6. Target' = i /\ at' - 1 = 1
    BY <2>3, <2>4 DEF Target
  <2> QED BY <2>2, <2>3, <2>5, <2>6 DEF Tracked, AsSent
<1>6. CASE Plans
  <2>1. /\ pc = "plan" /\ pc' = "update" /\ at = 1 /\ made = NoId /\ entry # NoId
        /\ UNCHANGED <<R, config, known, entry, made, at, stale, cloud>>
    BY <1>1, <1>6 DEF Plans, PlanNothing, PlanCreate, PlanUpdate, PlanDelete, NothingPlanned,
              CreatePlanned, UpdatePlanned, DeletePlanned, Goto, program, Following, env,
              LedgerInv, Types, Placed, HandlerPCs
  <2>2. Target' = entry /\ cloud'[entry] = cloud[entry] /\ at' - 1 = 0
    BY <2>1 DEF Target
  <2>3. /\ cloud[entry].attrs = cloud[entry].goal
        /\ \A f \in R.reads \cap Fields :
             \/ known[f] = cloud[entry].attrs[f]
             \/ f = "note" /\ known[f] = Null /\ cloud[entry].attrs[f] = Empty
    BY <1>1, <2>1 DEF SeenInv, Seen, Following
  <2>4. (0 \notin Pending /\ Sent[0] = {})'
    <3>1. Sent[0] = {} /\ 0 \notin Pending
      BY SentSteps, PendingSteps
    <3>2. 1 .. 0 = {}
      OBVIOUS
    <3> QED BY <3>2 DEF Sent, Pending
  <2>5. R.fields \subseteq Fields
    BY RowHides
  <2> QED BY <2>1, <2>2, <2>3, <2>4, <2>5 DEF Tracked, AsSent, Agrees
<1>7. CASE Reads
  BY <1>1, <1>7 DEF Reads, ReadOk, ReadFails, ReadRemoves, ReadMisses, Stop, Fail, Following
<1>8. CASE Imports
  BY <1>1, <1>8 DEF Imports, ImportOk, ImportFails, Following
<1>9. CASE User \/ Stopped
  BY <1>1, <1>9 DEF User, EditConfig, StartRun, StartImport, Goto, Stopped, Crash, Fail,
                    Following
<1>10. CASE Service
  <2>1. UNCHANGED <<entry, known, made, pc, config, program>> /\ (stale => stale')
    <3>1. stale \in BOOLEAN
      BY DEF LedgerInv, Types, TypeOK
    <3> QED BY <1>10, <3>1, ServiceMoves DEF Behind
  <2>2. Following /\ UNCHANGED <<R, at>>
    BY <1>1, <2>1 DEF Following, program
  <2>3. Tracked(at - 1, cloud'[Target])
    BY <1>1, <1>3, <1>10, <2>2, ServiceTracks DEF Tracking, Following
  <2> QED BY <1>2, <1>3, <2>1, <2>2, <2>3
<1>11. CASE UNCHANGED allVars
  <2>1. UNCHANGED <<pc, R, config, known, entry, made, at, cloud, stale, failed>>
    BY <1>11 DEF allVars, vars, program
  <2>2. Following
    BY <1>1, <2>1 DEF Following
  <2> QED BY <1>2, <1>3, <2>1, <2>2 DEF Tracking
<1> QED BY <1>4, <1>5, <1>6, <1>7, <1>8, <1>9, <1>10, <1>11, NextSteps

-----------------------------------------------------------------------------
(* The steps after which a run counts as ended well.                       *)
EndsCreate(m) ==
  /\ pc = "create" /\ entry = NoId /\ at >= Len(Code) /\ CreateReturns(m, FALSE)
  /\ Tracked(at, cloud'[m]) /\ UNCHANGED <<config, kind, R>>
  /\ PostAccepted(m) \/ (m = made /\ Calls)
EndsUpdate ==
  /\ pc = "update" /\ entry # NoId /\ at >= Len(Code) /\ UpdateReturns(FALSE)
  /\ UNCHANGED <<config, kind, R>> /\ Calls
  /\ IF R.records = "read" THEN UNCHANGED cloud /\ cloud[entry].status = "READY"
     ELSE Tracked(at, cloud'[entry])

LEMMA SettlesBy ==
  ASSUME LedgerInv, Changing, Staying, Resting, Polled, ReadySteady, Tracking,
         [Next]_allVars, settled'
  PROVE  \/ /\ settled /\ UNCHANGED <<entry, known, config, kind, R, pc>>
            /\ UNCHANGED cloud \/ Service
         \/ PlanNothing
         \/ entry' = NoId /\ ~config'.want
         \/ ~stale' /\ \E m \in Ids : EndsCreate(m)
         \/ ~stale' /\ EndsUpdate
<1>1. CASE Calls
  <2>1. InCall /\ Outcome /\ ~settled
    BY <1>1, CallsOutcome DEF LedgerInv, InCall, HandlerPCs, Resting
  <2>2. FindsNothing \/ GoesOnWith(TRUE) \/ GoesOnWith(failed)
    BY <2>1 DEF Outcome, Stop, Fail, Keeps, Keep, RollsBack
  <2>3. UNCHANGED <<config, kind, R>>
    BY <2>2 DEF FindsNothing, GoesOnWith, GoesOn, env
  <2>4. CASE pc = "delete"
    BY <2>1, <2>2, <2>3, <2>4 DEF FindsNothing, GoesOnWith, GoesOn, Returns, DeleteReturns
  <2>5. ASSUME NEW e, GoesOnWith(e), pc \in {"create", "update"}
        PROVE  ~e /\ at >= Len(Code) /\ Returns(made, e) /\ ~stale' /\ UNCHANGED stale
    BY <2>1, <2>5 DEF GoesOnWith, GoesOn, Returns, CreateReturns, UpdateReturns
  <2>6. ASSUME pc \in {"create", "update"}
        PROVE  /\ ~failed /\ GoesOnWith(failed) /\ ~GoesOnWith(TRUE) /\ Returns(made, failed)
               /\ at >= Len(Code) /\ ~stale' /\ ~stale /\ ~RollsBack /\ Proceeds
               /\ at \in Nat \ {0}
    <3>1. ~FindsNothing /\ ~RollsBack
      BY <2>1, <2>6 DEF FindsNothing, RollsBack
    <3>2. at \in 1 .. Len(Code) + 1 /\ Len(Code) \in Nat
      BY <2>1, CodeTyped DEF LedgerInv, Types, TypeOK, InCall, Code
    <3>3. ~GoesOnWith(TRUE)
      <4>1. GoesOnWith(TRUE) => ~TRUE
        BY <2>5, <2>6, Zenon
      <4> QED BY <4>1
    <3>4. GoesOnWith(failed)
      BY <2>2, <3>1, <3>3
    <3>5. /\ ~failed /\ at >= Len(Code) /\ Returns(made, failed) /\ ~stale'
          /\ UNCHANGED stale
      BY <2>5, <2>6, <3>4, Zenon
    <3>6. ~stale /\ Proceeds
      BY <3>4, <3>5 DEF GoesOnWith, Proceeds
    <3>7. \A l \in Nat : at \in 1 .. l + 1 => at \in Nat \ {0}
      OBVIOUS
    <3>8. at \in Nat \ {0}
      BY <3>2, <3>7, Zenon
    <3> QED BY <3>1, <3>3, <3>4, <3>5, <3>6, <3>8, Zenon
  <2>7. failed \in BOOLEAN /\ (~failed => failed = FALSE)
    BY DEF LedgerInv, Types, TypeOK
  <2>8. ASSUME pc \in {"create", "update"}, Following PROVE Tracked(at, cloud'[Target])
    <3>1. R.prompt \/ Spaced(Code)
      BY <2>8, RowTracks DEF Tracks, Following, Code
    <3> QED BY <1>1, <2>6, <2>8, <3>1, CallTracks DEF Tracking
  <2>9. CASE pc = "create"
    <3>1. made \in Ids /\ made # NoId /\ entry = NoId
      <4>1. at # 1 /\ entry = NoId
        <5>1. Len(Code) \in Nat
          BY <2>1, CodeTyped DEF InCall, LedgerInv, Types, Code
        <5> QED BY <2>1, <2>9, <5>1 DEF InCall, LedgerInv, Types, Placed
      <4> QED BY <2>9, <4>1 DEF LedgerInv, Types, Placed, TypeOK
    <3>2. Following /\ Target = made
      BY <2>6, <2>9, <3>1 DEF Following, Target
    <3>3. CreateReturns(made, FALSE)
      BY <2>6, <2>7, <2>9 DEF Returns
    <3> QED BY <1>1, <2>3, <2>6, <2>8, <2>9, <3>1, <3>2, <3>3 DEF EndsCreate
  <2>10. CASE pc = "update"
    <3>1. made = NoId /\ entry # NoId /\ Target = entry
      BY <2>10 DEF LedgerInv, Types, Placed, Target
    <3>2. UpdateReturns(FALSE)
      BY <2>6, <2>7, <2>10 DEF Returns
    <3>3. CASE R.records = "read"
      <4>1. kind \in Waiting \ {"vpc"}
        BY <3>3, RowTracks DEF Tracks, Concludes
      <4>2. UNCHANGED cloud /\ cloud[entry].status = "READY"
        BY <1>1, <2>6, <2>10, <3>1, <4>1, EndsReady
      <4> QED BY <1>1, <2>3, <2>6, <2>10, <3>1, <3>2, <3>3, <4>2 DEF EndsUpdate
    <3>4. CASE R.records # "read"
      <4>1. Following
        BY <2>6, <2>10, <3>4 DEF Following
      <4> QED BY <1>1, <2>3, <2>6, <2>8, <2>10, <3>1, <3>2, <3>4, <4>1 DEF EndsUpdate
    <3> QED BY <3>3, <3>4
  <2> QED BY <2>1, <2>4, <2>9, <2>10 DEF InCall, HandlerPCs
<1>2. CASE Posts
  <2>1. pc = "create" /\ ~settled
    <3>1. At("post")
      BY <1>2 DEF Posts, PostRefused, PostAccepted, PostReplyLost, Posted
    <3>2. pc \in HandlerPCs /\ at \in DOMAIN Code /\ Cur.call = "post"
      BY <3>1 DEF At
    <3> QED BY <3>2, CallPlaces DEF LedgerInv, Resting
  <2>2. PICK i \in Ids : PostAccepted(i)
    BY <1>2, <2>1 DEF Posts, PostRefused, PostReplyLost, Stop, Fail
  <2>3. /\ entry = NoId /\ at = 1 /\ Tracked(at, cloud'[i])
        /\ GoesOn(i, failed \/ Sourceless) /\ stale' = FALSE
    BY <2>2, PostTracks DEF PostAccepted
  <2>4. at >= Len(Code) /\ CreateReturns(i, failed \/ Sourceless) /\ UNCHANGED <<config, kind, R>>
    BY <2>1, <2>3 DEF GoesOn, Returns, env
  <2>5. (failed \/ Sourceless) = FALSE
    <3>1. ~(failed \/ Sourceless)
      BY <2>4 DEF CreateReturns, LedgerInv, Types, TypeOK
    <3> QED BY <3>1
  <2> QED BY <2>1, <2>2, <2>3, <2>4, <2>5 DEF EndsCreate
<1>3. CASE Plans
  BY <1>3 DEF Plans, PlanCreate, PlanUpdate, PlanDelete,
              CreatePlanned, UpdatePlanned, DeletePlanned, Goto
<1>4. CASE Reads
  BY <1>4 DEF Reads, ReadOk, ReadFails, ReadRemoves, ReadMisses, Stop, Fail, Resting
<1>5. CASE Imports
  BY <1>5 DEF Imports, ImportOk, ImportFails, Resting
<1>6. CASE User \/ Stopped
  BY <1>6 DEF User, EditConfig, StartRun, StartImport, Goto, Stopped, Crash, Fail, Resting
<1>7. CASE Service
  BY <1>7, ServiceMoves DEF Behind, program
<1>8. CASE UNCHANGED allVars
  BY <1>8 DEF allVars, vars, program
<1> QED BY <1>1, <1>2, <1>3, <1>4, <1>5, <1>6, <1>7, <1>8, NextSteps

(* What a handler that made all its calls has sent.                        *)
LEMMA AllSent ==
  ASSUME LedgerInv, pc \in {"create", "update"}, at >= Len(Code), at \in Nat, NEW f
  PROVE  /\ f \in Sent[at] <=> \E n \in DOMAIN Code : f \in Carried(Code[n])
         /\ f \in Sent[at] => Planned[f] # Unknown /\ MaySend(Code, f)
         /\ f \notin Sent[at] /\ MaySend(Code, f) =>
              Planned[f] \in {Unknown, known[f]} \/ (Planned[f] = Null /\ ~Whole(Code))
<1>1. DOMAIN Code = 1 .. Len(Code) /\ Len(Code) \in Nat /\ Sound(Code)
  <2>1. Sound(R.create) /\ Sound(R.update)
    BY RowTracks DEF Tracks
  <2> QED BY <2>1, CodeTyped DEF Code, LedgerInv, Types, HandlerPCs
<1>2. DOMAIN Code \cap 1 .. at = DOMAIN Code
  BY <1>1
<1>3. f \in Sent[at] <=> \E n \in DOMAIN Code : f \in Carried(Code[n])
  BY <1>2 DEF Sent
<1>4. ASSUME NEW n \in DOMAIN Code, f \in Carried(Code[n])
      PROVE  Planned[f] # Unknown /\ MaySend(Code, f)
  <2>1. Code[n].call = "send" /\ f \in Code[n].fields
    BY <1>1, <1>4 DEF Sound, Tidy, Carried
  <2> QED BY <1>4, <2>1 DEF MaySend, Carried, Differs
<1>5. ASSUME NEW n \in DOMAIN Code, f \in Code[n].fields, f \notin Carried(Code[n])
      PROVE  Planned[f] \in {Unknown, known[f]} \/ (Planned[f] = Null /\ ~Whole(Code))
  BY <1>5 DEF Carried, Differs, Whole
<1> QED BY <1>3, <1>4, <1>5 DEF MaySend

(* What is planned for an object that is made, and for one that is there.  *)
LEMMA PlannedConfigured ==
  ASSUME LedgerInv, NEW f \in R.fields
  PROVE  /\ f \in Fields /\ config.attrs[f] # Unknown /\ known[f] # Unknown
         /\ f \notin R.pinned \/ entry = NoId => Planned[f] = Proposed(f)
         /\ entry = NoId /\ Planned[f] # Unknown =>
              Planned[f] = config.attrs[f] /\ (config.attrs[f] = Null => f \notin R.computed)
         /\ (f \notin R.pinned \/ entry = NoId) /\ config.attrs[f] # Null
              => Planned[f] = config.attrs[f]
         /\ entry = NoId /\ Planned[f] = Unknown => config.attrs[f] = Null
<1>1. f \in Fields
  BY RowHides
<1>2. config.attrs[f] # Unknown /\ known[f] # Unknown
  BY <1>1, MarksAssumption DEF LedgerInv, Types, TypeOK, Recordable
<1>3. f \notin R.pinned \/ entry = NoId => Planned[f] = Proposed(f)
  BY <1>1 DEF Planned, UseStateForInt64AfterCreate, InState
<1> QED BY <1>1, <1>2, <1>3 DEF Proposed

LEMMA CreateAgrees ==
  ASSUME LedgerInv, Forgotten, Suited, NEW m \in Ids, EndsCreate(m), settled'
  PROVE  /\ entry' = m
         /\ cloud'[m].status # "ERROR" =>
              \A f \in R.fields \cap R.reads : Agrees(f, known'[f], cloud'[m].goal[f])
         /\ \A f \in R.fields \ R.pinned : config.attrs[f] \in {Null, known'[f]}
<1> DEFINE record == CreateRecord(cloud'[m].attrs)
<1>1. /\ entry' = m /\ known' = Resolved(record) /\ ~Inconsistent(record)
      /\ pc = "create" /\ entry = NoId /\ at >= Len(Code) /\ known = Default
  BY DEF EndsCreate, CreateReturns, Forgotten
<1>2. Starts(R) /\ R.fields \subseteq Fields /\ Code = R.create
  BY <1>1, RowTracks, RowHides DEF Tracks, Code
<1>3. at \in Nat
  BY <1>1, CodeTyped DEF LedgerInv, Types, TypeOK, HandlerPCs, Code
<1>4. \A f \in R.fields : record[f] # Unknown /\ Planned[f] \in {Unknown, record[f]}
  BY <1>1 DEF Inconsistent
<1>5. \A f \in Fields :
        record[f] = IF f \in R.fills /\ Planned[f] = Unknown THEN Null
                    ELSE IF f \notin R.learns THEN Planned[f]
                    ELSE IF R.early THEN Answered[f] ELSE Recorded(cloud'[m].attrs, Planned)[f]
  BY DEF CreateRecord
<1> HIDE DEF record
<1>6. \A f \in R.fields : known'[f] = record[f]
  BY <1>1, <1>2, <1>4 DEF Resolved
<1>7. \A f \in R.fields \ R.pinned : config.attrs[f] \in {Null, known'[f]}
  BY <1>4, <1>6, PlannedConfigured
<1>8. ASSUME cloud'[m].status # "ERROR", NEW f \in R.fields \cap R.reads
      PROVE  Agrees(f, record[f], cloud'[m].goal[f])
  <2>1. AsSent(f, at, cloud'[m]) /\ (f \notin Sent[at] => cloud'[m].attrs[f] = cloud'[m].goal[f])
    BY <1>2, <1>8 DEF EndsCreate, Tracked
  <2>2. CASE f \in Sent[at]
    <3>1. Planned[f] # Unknown /\ cloud'[m].goal[f] = Planned[f]
      BY <1>1, <1>3, <2>1, <2>2, AllSent DEF AsSent
    <3> QED BY <1>4, <3>1 DEF Agrees
  <2>3. CASE f \notin Sent[at]
    <3>1. /\ f \in R.leaves \/ Agrees(f, Answered[f], cloud'[m].goal[f])
          /\ cloud'[m].attrs[f] = cloud'[m].goal[f]
      BY <1>1, <2>1, <2>3 DEF AsSent
    <3>0. f \in R.leaves => f \in R.learns \ R.fills /\ ~R.early
      BY <1>2 DEF Starts
    <3>2. Answered[f] = IF config.attrs[f] # Null /\ f \in R.posted THEN config.attrs[f]
                        ELSE Default[f]
      BY <1>2 DEF Answered
    <3>3. ASSUME f \in Optionals, config.attrs[f] = Null PROVE Answered[f] = Null
      BY <3>2, <3>3, AbsenceAssumption DEF Optionals
    <3>4. CASE f \in R.fills /\ Planned[f] = Unknown
      <4>1. f \in Optionals /\ config.attrs[f] = Null /\ record[f] = Null
        BY <1>1, <1>2, <1>5, <3>4, PlannedConfigured DEF Starts
      <4> QED BY <3>1, <3>3, <3>4, <3>0, <4>1
    <3>5. CASE f \in R.learns /\ ~(f \in R.fills /\ Planned[f] = Unknown)
      <4>1. CASE R.early
        BY <1>2, <1>5, <3>1, <3>5, <3>0, <4>1
      <4>2. CASE ~R.early
        <5>1. record[f] = Recorded(cloud'[m].attrs, Planned)[f]
          BY <1>2, <1>5, <3>5, <4>2
        <5>2. \/ record[f] = cloud'[m].attrs[f]
              \/ f = "note" /\ cloud'[m].attrs[f] = Empty /\ record[f] = Null
          BY <1>2, <1>8, <5>1 DEF Recorded
        <5> QED BY <3>1, <5>2 DEF Agrees
      <4> QED BY <4>1, <4>2
    <3>6. CASE f \notin R.learns /\ ~(f \in R.fills /\ Planned[f] = Unknown)
      <4>1. record[f] = Planned[f] /\ Planned[f] # Unknown
        BY <1>2, <1>4, <1>5, <3>6
      <4>2. Planned[f] = config.attrs[f] /\ (config.attrs[f] = Null => f \notin R.computed)
        BY <1>1, <4>1, PlannedConfigured
      <4>3. CASE config.attrs[f] # Null /\ f \in R.posted
        BY <3>1, <3>2, <3>6, <3>0, <4>1, <4>2, <4>3
      <4>4. CASE config.attrs[f] # Null /\ f \notin R.posted
        <5>1. MaySend(Code, f)
          BY <1>2, <3>6, <4>4 DEF Starts
        <5>2. Planned[f] = known[f]
          BY <1>1, <1>3, <2>3, <4>1, <4>2, <4>4, <5>1, AllSent
        <5> QED BY <1>1, <3>1, <3>2, <3>6, <3>0, <4>1, <4>4, <5>2
      <4>5. CASE config.attrs[f] = Null
        <5>1. f \in R.optional
          BY <1>2, <4>5 DEF Suited, Suits, LedgerInv, Types, ProgramOK
        <5>2. f \in Optionals
          BY <1>2, <3>6, <4>2, <4>5, <5>1 DEF Starts
        <5> QED BY <3>1, <3>3, <3>6, <3>0, <4>1, <4>2, <4>5, <5>2
      <4> QED BY <4>3, <4>4, <4>5
    <3> QED BY <3>4, <3>5, <3>6
  <2> QED BY <2>2, <2>3
<1> QED BY <1>1, <1>6, <1>7, <1>8

LEMMA UpdateAgrees ==
  ASSUME LedgerInv, Staying, ReadySteady, EndsUpdate, settled'
  PROVE  /\ entry' = entry
         /\ cloud'[entry].status # "ERROR" =>
              \A f \in R.fields \cap R.reads : Agrees(f, known'[f], cloud'[entry].goal[f])
         /\ \A f \in R.fields \ R.pinned : config.attrs[f] \in {Null, known'[f]}
<1> DEFINE record == UpdateRecord(cloud'[entry].attrs)
<1>1. /\ entry' = entry /\ known' = Resolved(record) /\ ~Inconsistent(record)
      /\ pc = "update" /\ entry \in Ids /\ at >= Len(Code)
  BY DEF EndsUpdate, UpdateReturns, LedgerInv, Types, TypeOK
<1>2. Concludes(kind, R) /\ R.fields \subseteq Fields /\ Code = R.update
  BY <1>1, RowTracks, RowHides DEF Tracks, Code
<1>3. at \in Nat
  BY <1>1, CodeTyped DEF LedgerInv, Types, TypeOK, HandlerPCs, Code
<1>4. \A f \in R.fields : record[f] # Unknown /\ Planned[f] \in {Unknown, record[f]}
  BY <1>1 DEF Inconsistent
<1> DEFINE attrs == cloud'[entry].attrs
<1>5. record = IF R.records = "plan" THEN Planned
               ELSE IF R.records = "read" THEN Recorded(attrs, known)
               ELSE [f \in Fields |-> IF \E n \in DOMAIN R.update : f \in Carried(R.update[n])
                                      THEN Planned[f] ELSE known[f]]
  BY DEF UpdateRecord
<1> HIDE DEF record
<1>6. \A f \in R.fields : known'[f] = record[f]
  BY <1>1, <1>2, <1>4 DEF Resolved
<1>7. \A f \in R.fields \ R.pinned : config.attrs[f] \in {Null, known'[f]}
  BY <1>4, <1>6, PlannedConfigured
<1>8. ASSUME cloud'[entry].status # "ERROR", NEW f \in R.fields \cap R.reads
      PROVE  Agrees(f, record[f], cloud'[entry].goal[f])
  <2>1. CASE R.records = "read"
    <3>1. attrs = cloud'[entry].goal
      BY <1>1, <2>1 DEF EndsUpdate, ReadySteady
    <3>2. record[f] = Recorded(attrs, known)[f]
      BY <1>5, <2>1
    <3>3. record[f] = attrs[f] \/ (f = "note" /\ attrs[f] = Empty /\ record[f] = Null)
      BY <1>2, <1>8, <3>2 DEF Recorded
    <3> QED BY <3>1, <3>3 DEF Agrees
  <2>2. CASE R.records # "read"
    <3>1. AsSent(f, at, cloud'[entry])
      BY <1>8, <2>2 DEF EndsUpdate, Tracked
    <3>2. CASE f \in Sent[at]
      <4>1. Planned[f] # Unknown /\ cloud'[entry].goal[f] = Planned[f]
        BY <1>1, <1>3, <3>1, <3>2, AllSent DEF AsSent
      <4> QED BY <1>4, <4>1 DEF Agrees
    <3>3. CASE f \notin Sent[at]
      <4>1. Agrees(f, known[f], cloud'[entry].goal[f])
        BY <1>1, <1>8, <3>1, <3>3 DEF AsSent
      <4>2. CASE R.records = "changed"
        <5>1. ~\E n \in DOMAIN R.update : f \in Carried(R.update[n])
          BY <1>1, <1>2, <1>3, <3>3, AllSent
        <5>2. record[f] = known[f]
          BY <1>2, <1>5, <4>2, <5>1
        <5> QED BY <4>1, <5>2
      <4>3. CASE R.records = "plan"
        <5>1. record[f] = Planned[f] /\ Planned[f] # Unknown
          BY <1>4, <1>5, <4>3
        <5>2. CASE f \in R.replace
          <6>1. ~ReplacesFor(f) /\ f \notin R.sets
            BY <1>1, <1>2, <4>3, <5>2 DEF Staying, Replaces, Concludes
          <6>2. known[f] = Planned[f]
            BY <5>1, <6>1 DEF ReplacesFor, ReplaceIfChangeAndNotIsNotSetOnPlan
          <6> QED BY <4>1, <5>1, <6>2
        <5>3. CASE f \notin R.replace
          <6>1. MaySend(Code, f)
            BY <1>2, <4>3, <5>3 DEF Concludes
          <6>2. Planned[f] = known[f]
            BY <1>1, <1>2, <1>3, <3>3, <4>3, <5>1, <6>1, AllSent DEF Concludes
          <6> QED BY <4>1, <5>1, <6>2
        <5> QED BY <5>2, <5>3
      <4> QED BY <1>2, <2>2, <4>2, <4>3 DEF Concludes
    <3> QED BY <3>2, <3>3
  <2> QED BY <2>1, <2>2
<1> QED BY <1>1, <1>6, <1>7, <1>8

LEMMA PlanAgrees ==
  ASSUME LedgerInv, SeenInv, PlanNothing, settled'
  PROVE  /\ UNCHANGED <<entry, known, config, R, kind, cloud>>
         /\ entry # NoId =>
              \A f \in R.fields \cap R.reads : Agrees(f, known[f], cloud[entry].goal[f])
         /\ config.want =>
              entry # NoId /\ \A f \in R.fields \ R.pinned : config.attrs[f] \in {Null, known[f]}
<1>1. /\ pc = "plan" /\ ~stale /\ UNCHANGED <<entry, known, config, R, kind, cloud>>
      /\ config.want => entry # NoId /\ Planned = known
  BY DEF PlanNothing, NothingPlanned, program, env
<1>2. ASSUME entry # NoId, NEW f \in R.fields \cap R.reads
      PROVE  Agrees(f, known[f], cloud[entry].goal[f])
  <2>1. f \in Fields
    BY RowHides
  <2> QED BY <1>1, <1>2, <2>1 DEF SeenInv, Seen, Agrees
<1>3. ASSUME config.want, NEW f \in R.fields \ R.pinned
      PROVE  config.attrs[f] \in {Null, known[f]}
  BY <1>1, <1>3, PlannedConfigured
<1> QED BY <1>1, <1>2, <1>3

(* What a run that ended well recorded is what is configured.              *)
RecordedAsConfigured ==
  settled /\ config.want =>
    entry # NoId /\ \A f \in R.fields \ R.pinned : config.attrs[f] \in {Null, known[f]}

LEMMA ConfiguredKept ==
  ASSUME LedgerInv, Changing, Staying, Resting, Polled, SeenInv, ReadySteady, Tracking,
         Forgotten, Suited, RecordedAsConfigured, [Next]_allVars
  PROVE  RecordedAsConfigured'
<1>1. SUFFICES ASSUME settled', config'.want
               PROVE  /\ entry' # NoId
                      /\ \A f \in R'.fields \ R'.pinned : config'.attrs[f] \in {Null, known'[f]}
  BY DEF RecordedAsConfigured
<1>2. CASE settled /\ UNCHANGED <<entry, known, config, kind, R, pc>>
  BY <1>1, <1>2 DEF RecordedAsConfigured
<1>3. CASE PlanNothing
  BY <1>1, <1>3, PlanAgrees
<1>4. ASSUME NEW m \in Ids, EndsCreate(m)
      PROVE  /\ entry' # NoId
             /\ \A f \in R'.fields \ R'.pinned : config'.attrs[f] \in {Null, known'[f]}
  <2>1. m # NoId
    BY IdsAssumption
  <2>2. entry' = m /\ \A f \in R.fields \ R.pinned : config.attrs[f] \in {Null, known'[f]}
    BY <1>1, <1>4, CreateAgrees
  <2>3. R' = R /\ config' = config
    BY <1>4 DEF EndsCreate
  <2> QED BY <2>1, <2>2, <2>3
<1>5. CASE EndsUpdate
  BY <1>1, <1>5, UpdateAgrees DEF EndsUpdate
<1> QED BY <1>1, <1>2, <1>3, <1>4, <1>5, SettlesBy

LEMMA AgreesKept ==
  ASSUME LedgerInv, Changing, Staying, Resting, Polled, SeenInv, ReadySteady, Tracking,
         Forgotten, Suited, RecordAgrees, [Next]_allVars
  PROVE  RecordAgrees'
<1> DEFINE Right(i) == \A f \in R.fields \cap R.reads : Agrees(f, known'[f], cloud'[i].goal[f])
<1>1. SUFFICES ASSUME settled', entry' # NoId, cloud'[entry'].status # "ERROR"
               PROVE  R' = R /\ Right(entry')
  BY DEF RecordAgrees, Agrees
<1>2. CASE /\ settled /\ UNCHANGED <<entry, known, config, kind, R, pc>>
           /\ UNCHANGED cloud \/ Service
  <2>1. pc = "idle" /\ entry \in Ids
    BY <1>1, <1>2 DEF Resting, LedgerInv, Types, TypeOK
  <2>2. cloud[entry].status # "ERROR" /\ cloud'[entry].goal = cloud[entry].goal
    <3>1. CASE UNCHANGED cloud
      BY <1>1, <1>2, <3>1
    <3>2. CASE Service
      <4>1. PICK i \in Ids :
              /\ \A j \in Ids \ {i} : cloud'[j] = cloud[j]
              /\ \/ cloud[i].status = "PENDING" /\ cloud'[i].goal = cloud[i].goal
                 \/ cloud'[i].status = "ERROR"
                 \/ Behind(i)
        BY <3>2, ServiceMoves, Zenon
      <4>2. ~Behind(entry)
        BY <1>1 DEF Behind
      <4> QED BY <1>1, <1>2, <2>1, <4>1, <4>2
    <3> QED BY <1>2, <3>1, <3>2
  <2> QED BY <1>1, <1>2, <2>1, <2>2 DEF RecordAgrees, Agrees
<1>3. CASE PlanNothing
  BY <1>1, <1>3, PlanAgrees
<1>4. ASSUME NEW m \in Ids, EndsCreate(m) PROVE R' = R /\ Right(entry')
  BY <1>1, <1>4, CreateAgrees DEF EndsCreate
<1>5. CASE EndsUpdate
  BY <1>1, <1>5, UpdateAgrees DEF EndsUpdate
<1> QED BY <1>1, <1>2, <1>3, <1>4, <1>5, SettlesBy

-----------------------------------------------------------------------------
(* A handler that saw the service as it is has its object, and so has a    *)
(* run that ended well.                                                    *)
PlansPresent == pc \in {"plan", "update"} /\ entry # NoId /\ ~stale => Exists(entry)
CreatesPresent == pc = "create" /\ made # NoId /\ ~stale => Exists(made)
EndsPresent == settled /\ entry # NoId => Exists(entry)
Present == PlansPresent /\ CreatesPresent /\ EndsPresent

(* What the service does removes nothing that is not seen to be gone.      *)
LEMMA ServiceRemoves ==
  ASSUME LedgerInv, Service, NEW j \in {entry, made} \cap Ids, Exists(j), ~stale'
  PROVE  Exists(j)' /\ ~stale
<1>1. PICK i \in Ids :
         /\ \A n \in Ids \ {i} : cloud'[n] = cloud[n]
         /\ \/ cloud'[i].status \in {"READY", "ERROR"} /\ UNCHANGED stale
            \/ Behind(i)
  BY ServiceMoves, Zenon
<1>2. ~stale /\ ~(Behind(i) /\ i = j)
  <2>1. stale \in BOOLEAN /\ j \in {entry, made}
    BY DEF LedgerInv, Types, TypeOK
  <2>2. (Behind(i) => (stale' <=> stale \/ i \in {entry, made}))
    BY <2>1 DEF Behind
  <2> QED BY <1>1, <2>1, <2>2
<1> QED BY <1>1, <1>2 DEF Exists

LEMMA CallsStale ==
  ASSUME LedgerInv, Calls, ~stale'
  PROVE  /\ ~stale /\ made \in Ids \cup {NoId} /\ (pc = "create" => made \in Ids)
         /\ \A i \in Ids : Exists(i)' <=> Exists(i)
<1>1. InCall /\ Outcome /\ Reaches /\ stale \in BOOLEAN
  BY CallsOutcome DEF LedgerInv, Types, TypeOK
<1>2. pc = "create" => made \in Ids
  <2>1. Len(Code) \in Nat /\ (pc = "create" => at # 1)
    BY <1>1, CodeTyped DEF InCall, LedgerInv, Types, Code
  <2> QED BY <2>1 DEF LedgerInv, Types, Placed, TypeOK
<1>3. ~stale
  BY <1>1 DEF Outcome, Stop, Fail, Keeps, Keep, RollsBack, FindsNothing, GoesOnWith
<1> QED BY <1>1, <1>2, <1>3 DEF Reaches, LedgerInv, Types, TypeOK

LEMMA PostPresent ==
  ASSUME LedgerInv, NEW i \in Ids, PostAccepted(i)
  PROVE  Exists(i)'
<1>1. PICK note \in Notes, left \in Left : cloud' = [cloud EXCEPT ![i] = Made(note, left)]
  BY DEF PostAccepted, Posted
<1>2. cloud'[i].status = Accepted
  BY <1>1 DEF Made, LedgerInv, Types, TypeOK
<1> QED BY <1>2 DEF Exists, Accepted

LEMMA EndsPresentKept ==
  ASSUME LedgerInv, Changing, Staying, Resting, Polled, ReadySteady, Tracking, Present,
         [Next]_allVars
  PROVE  EndsPresent'
<1>1. SUFFICES ASSUME settled', entry' # NoId PROVE cloud'[entry'].status # "GONE"
  BY DEF EndsPresent, Exists
<1>2. entry \in Ids \cup {NoId}
  BY DEF LedgerInv, Types, TypeOK
<1>3. CASE /\ settled /\ UNCHANGED <<entry, known, config, kind, R, pc>>
           /\ UNCHANGED cloud \/ Service
  <2>1. Exists(entry) /\ entry \in Ids
    BY <1>1, <1>2, <1>3 DEF Present, EndsPresent
  <2>2. ASSUME Service PROVE Exists(entry)'
    <3>1. PICK i \in Ids :
             /\ \A n \in Ids \ {i} : cloud'[n] = cloud[n]
             /\ \/ cloud'[i].status \in {"READY", "ERROR"}
                \/ Behind(i)
      BY <2>2, ServiceMoves, Zenon
    <3>2. i = entry => ~Behind(i)
      BY <1>1 DEF Behind
    <3> QED BY <1>3, <2>1, <3>1, <3>2 DEF Exists
  <2> QED BY <1>3, <2>1, <2>2 DEF Exists
<1>4. CASE PlanNothing
  BY <1>1, <1>4 DEF PlanNothing, NothingPlanned, Present, PlansPresent, Exists
<1>5. ASSUME NEW m \in Ids, EndsCreate(m), ~stale' PROVE cloud'[entry'].status # "GONE"
  <2>1. entry' = m
    BY <1>5 DEF EndsCreate, CreateReturns
  <2>2. CASE PostAccepted(m)
    BY <2>1, <2>2, PostPresent DEF Exists
  <2>3. CASE m = made /\ Calls
    <3>1. ~stale /\ (Exists(m)' <=> Exists(m))
      BY <1>5, <2>3, CallsStale
    <3>2. Exists(m)
      BY <1>5, <2>3, <3>1, IdsAssumption DEF Present, CreatesPresent, EndsCreate
    <3> QED BY <2>1, <3>1, <3>2 DEF Exists
  <2> QED BY <1>5, <2>2, <2>3 DEF EndsCreate
<1>6. ASSUME EndsUpdate, ~stale' PROVE cloud'[entry'].status # "GONE"
  <2>1. entry' = entry /\ entry \in Ids /\ pc = "update" /\ Calls
    BY <1>2, <1>6 DEF EndsUpdate, UpdateReturns
  <2>2. ~stale /\ (Exists(entry)' <=> Exists(entry))
    BY <1>6, <2>1, CallsStale
  <2> QED BY <1>6, <2>1, <2>2 DEF Present, PlansPresent, EndsUpdate, Exists
<1> QED BY <1>1, <1>3, <1>4, <1>5, <1>6, SettlesBy

LEMMA PresentKept ==
  ASSUME LedgerInv, Changing, Staying, Resting, Polled, ReadySteady, Tracking, Present,
         [Next]_allVars
  PROVE  Present'
<1> DEFINE Both == PlansPresent' /\ CreatesPresent'
<1>1. stale \in BOOLEAN /\ entry \in Ids \cup {NoId} /\ made \in Ids \cup {NoId}
  BY DEF LedgerInv, Types, TypeOK
<1>2. ASSUME Calls PROVE Both
  <2>1. SUFFICES ASSUME ~stale' PROVE Both
    BY DEF PlansPresent, CreatesPresent
  <2>2. ~stale /\ InCall /\ Outcome /\ \A i \in Ids : Exists(i)' <=> Exists(i)
    BY <1>2, <2>1, CallsStale, CallsOutcome DEF LedgerInv
  <2>3. \/ pc' = "idle"
        \/ pc = "delete" /\ pc' = "create" /\ made' = NoId
        \/ UNCHANGED <<pc, entry, made>>
    BY <2>2 DEF InCall, HandlerPCs, Outcome, Stop, Fail, Keeps, Keep, RollsBack, FindsNothing,
         DeleteReturns, GoesOnWith, GoesOn, Ends, Returns, CreateReturns, UpdateReturns,
         LedgerInv, Types, Placed
  <2> QED BY <1>1, <2>2, <2>3 DEF Present, PlansPresent, CreatesPresent, Exists
<1>3. ASSUME Posts PROVE Both
  <2>1. pc = "create"
    <3>1. At("post")
      BY <1>3 DEF Posts, PostRefused, PostAccepted, PostReplyLost, Posted
    <3>2. pc \in HandlerPCs /\ at \in DOMAIN Code /\ Cur.call = "post"
      BY <3>1 DEF At
    <3> QED BY <3>2, CallPlaces DEF LedgerInv
  <2>2. CASE pc' = "idle"
    BY <2>2 DEF PlansPresent, CreatesPresent
  <2>3. CASE pc' # "idle"
    <3>1. PICK i \in Ids : PostAccepted(i)
      BY <1>3, <2>3 DEF Posts, PostRefused, PostReplyLost, Stop, Fail
    <3>2. pc' = "create" /\ made' = i
      BY <2>1, <2>3, <3>1 DEF PostAccepted, GoesOn, Returns, CreateReturns
    <3>3. Exists(i)'
      BY <3>1, PostPresent
    <3> QED BY <3>2, <3>3 DEF PlansPresent, CreatesPresent, Exists
  <2> QED BY <2>2, <2>3
<1>4. ASSUME Plans PROVE Both
  BY <1>4 DEF Plans, PlanNothing, PlanCreate, PlanUpdate, PlanDelete, NothingPlanned,
       CreatePlanned, UpdatePlanned, DeletePlanned, Goto, Present, PlansPresent,
       CreatesPresent, Exists, LedgerInv, Types, Placed
<1>5. ASSUME Reads PROVE Both
  BY <1>5 DEF Reads, ReadOk, ReadFails, ReadRemoves, ReadMisses, Stop, Fail,
       PlansPresent, CreatesPresent, Exists, LedgerInv, Types, Placed
<1>6. ASSUME Imports PROVE Both
  BY <1>6 DEF Imports, ImportOk, ImportFails, PlansPresent, CreatesPresent
<1>7. ASSUME User \/ Stopped PROVE Both
  BY <1>7 DEF User, EditConfig, StartRun, StartImport, Goto, Stopped, Crash, Fail,
       PlansPresent, CreatesPresent
<1>8. ASSUME Service PROVE Both
  <2>1. UNCHANGED <<entry, made, pc>> /\ (stale => stale')
    BY <1>1, <1>8, ServiceMoves DEF Behind
  <2> QED BY <1>1, <1>8, <2>1, ServiceRemoves DEF Present, PlansPresent, CreatesPresent, Exists
<1>9. ASSUME UNCHANGED allVars PROVE Both
  BY <1>9 DEF allVars, vars, Present, PlansPresent, CreatesPresent, Exists
<1>10. Both
  BY <1>2, <1>3, <1>4, <1>5, <1>6, <1>7, <1>8, <1>9, NextSteps
<1> QED BY <1>10, EndsPresentKept DEF Present

-----------------------------------------------------------------------------
(* Without a fault, what Read does not see is remembered as it is.         *)
Concealed == R.fields \ R.reads
Remembered ==
  entry # NoId /\ Exists(entry) =>
    \A f \in Concealed : known[f] \in {Null, cloud[entry].goal[f]}
MadeAsAnswered ==
  pc = "create" /\ made # NoId /\ Exists(made) =>
    \A f \in Concealed : cloud[made].goal[f] = Answered[f]
Unread == faults = 0 => Remembered /\ MadeAsAnswered

LEMMA ConcealedFacts ==
  ASSUME LedgerInv, NEW f \in Concealed
  PROVE  /\ f \in Fields /\ f # "note" /\ f \in R.posted /\ f \notin R.learns \cup R.leaves
         /\ \A n \in DOMAIN R.create : R.create[n].call = "send" => f \notin R.create[n].fields
         /\ \/ f \in R.replace \ R.sets
            \/ R.records = "changed" /\ Len(R.update) \in {0, 1}
BY RowTracks, RowHides DEF Concealed, Tracks, Conceals, Starts

(* Nothing is undone that was not a fault of somebody.                     *)
LEMMA FaultsGrow ==
  ASSUME LedgerInv, [Next]_allVars, faults' = 0
  PROVE  faults = 0 /\ ~Fault /\ R' = R
<1>1. faults \in Nat /\ ~Fault
  BY DEF Fault, LedgerInv, Types, TypeOK
<1>2. CASE Calls
  <2>1. Outcome /\ faults' >= faults
    BY <1>2, CallsOutcome DEF LedgerInv, Reaches
  <2>2. R' = R
    BY <2>1 DEF Outcome, Stop, Fail, Keeps, Keep, RollsBack, FindsNothing, GoesOnWith, GoesOn
  <2> QED BY <1>1, <2>1, <2>2
<1>3. CASE Posts \/ Plans \/ Reads \/ Imports \/ User \/ Stopped
  <2>1. UNCHANGED <<R, faults>>
    BY <1>1, <1>3 DEF Posts, PostRefused, PostAccepted, PostReplyLost, Stop, GoesOn, NoFault,
         Plans, PlanNothing, PlanCreate, PlanUpdate, PlanDelete, NothingPlanned, program,
         CreatePlanned, UpdatePlanned, DeletePlanned, Reads, ReadOk, ReadFails, ReadRemoves,
         ReadMisses, Imports, ImportOk, ImportFails, User, EditConfig, StartRun,
         StartImport, Stopped, Crash
  <2> QED BY <1>1, <1>3, <2>1
<1>4. CASE Service
  <2>1. UNCHANGED <<R, faults>>
    BY <1>1, <1>4, ServiceMoves DEF program
  <2> QED BY <1>1, <2>1
<1>5. CASE UNCHANGED allVars
  BY <1>1, <1>5 DEF allVars, vars, program
<1> QED BY <1>1, <1>2, <1>3, <1>4, <1>5, NextSteps

(* Without a fault, the goal of an object changes with an accepted request *)
(* only.                                                                   *)
LEMMA CalmGoals ==
  ASSUME LedgerInv, Calls, ~Fault
  PROVE  \/ \A i \in Ids : cloud'[i].goal = cloud[i].goal
         \/ /\ SendAccepted /\ pc \in {"create", "update"} /\ at \in DOMAIN Code
            /\ Cur.call = "send" /\ Hit(Cur, Diff) /\ Proceeds
            /\ \A i \in Ids \ {Target} : cloud'[i] = cloud[i]
            /\ Target \in Ids => \A f \in Fields :
                 cloud'[Target].goal[f] = IF f \in Carried(Cur) THEN Planned[f]
                                          ELSE cloud[Target].goal[f]
<1>1. cloud \in [Ids -> Object]
  BY DEF LedgerInv, Types, TypeOK
<1>2. CASE UNCHANGED cloud
  BY <1>2
<1>3. ASSUME NEW i \in Ids, cloud' = [cloud EXCEPT ![i].status = "DELETING"]
      PROVE  \A j \in Ids : cloud'[j].goal = cloud[j].goal
  BY <1>1, <1>3 DEF Object
<1>4. CASE Asked(Target) /\ SendAccepted
  <2>1. /\ At("send") /\ Needed /\ Proceeds
    BY <1>4 DEF SendAccepted, Asked
  <2>2. pc \in HandlerPCs /\ at \in DOMAIN Code /\ Cur.call = "send"
    BY <2>1 DEF At
  <2>3. pc \in {"create", "update"}
    BY <2>2, CallPlaces DEF LedgerInv, HandlerPCs
  <2>4. Hit(Cur, Diff)
    BY <2>1, <2>2, <2>3, Needing DEF Needed, Cur
  <2>5. /\ \A i \in Ids \ {Target} : cloud'[i] = cloud[i]
        /\ Target \in Ids => \A f \in Fields :
             cloud'[Target].goal[f] = IF f \in Carried(Cur) THEN Planned[f]
                                      ELSE cloud[Target].goal[f]
    BY <1>1, <1>4 DEF Asked, Object
  <2> QED BY <1>4, <2>1, <2>2, <2>3, <2>4, <2>5
<1> QED BY <1>2, <1>3, <1>4, CallsChange

(* A handler of Create asks for nothing that Read does not see.            *)
LEMMA CreateConceals ==
  ASSUME LedgerInv, Calls, ~Fault, pc = "create", NEW f \in Concealed, NEW i \in Ids
  PROVE  cloud'[i].goal[f] = cloud[i].goal[f]
<1>1. CASE \A j \in Ids : cloud'[j].goal = cloud[j].goal
  BY <1>1
<1>2. CASE /\ at \in DOMAIN Code /\ Cur.call = "send"
           /\ \A j \in Ids \ {Target} : cloud'[j] = cloud[j]
           /\ Target \in Ids => \A g \in Fields :
                cloud'[Target].goal[g] = IF g \in Carried(Cur) THEN Planned[g]
                                         ELSE cloud[Target].goal[g]
  <2>1. f \in Fields /\ f \notin Cur.fields
    BY <1>2, ConcealedFacts DEF Cur, Code
  <2>2. f \notin Carried(Cur)
    BY <2>1 DEF Carried
  <2> QED BY <1>2, <2>1, <2>2
<1> QED BY <1>1, <1>2, CalmGoals

LEMMA MadeAsAnsweredKept ==
  ASSUME LedgerInv, MadeAsAnswered, [Next]_allVars, faults' = 0
  PROVE  MadeAsAnswered'
<1>1. ~Fault /\ R' = R /\ Concealed' = Concealed
  BY FaultsGrow DEF Concealed
<1>2. SUFFICES ASSUME pc' = "create", made' # NoId, cloud'[made'].status # "GONE",
                      NEW f \in Concealed
               PROVE  cloud'[made'].goal[f] = Answered'[f]
  BY <1>1 DEF MadeAsAnswered, Exists
<1>3. UNCHANGED config => Answered' = Answered
  BY <1>1 DEF Answered
<1>4. made \in Ids \cup {NoId}
  BY DEF LedgerInv, Types, TypeOK
<1>5. CASE Calls
  <2>1. InCall /\ Outcome
    BY <1>5, CallsOutcome DEF LedgerInv
  <2>2. pc = "create" /\ UNCHANGED <<made, config>>
    BY <1>2, <2>1 DEF InCall, HandlerPCs, Outcome, Stop, Fail, Keeps, Keep, RollsBack,
         FindsNothing, DeleteReturns, GoesOnWith, GoesOn, Ends, Returns, CreateReturns,
         UpdateReturns, LedgerInv, Types, Placed, env
  <2>3. made \in Ids /\ cloud'[made].goal[f] = cloud[made].goal[f]
    BY <1>1, <1>2, <1>4, <1>5, <2>2, CreateConceals
  <2>4. Reaches
    BY <1>5, CallsOutcome DEF LedgerInv
  <2>5. Exists(made)
    BY <1>2, <2>2, <2>3, <2>4 DEF Reaches, Exists
  <2> QED BY <1>2, <1>3, <2>2, <2>3, <2>5 DEF MadeAsAnswered
<1>6. CASE Posts
  <2>1. PICK i \in Ids : PostAccepted(i)
    BY <1>1, <1>2, <1>6 DEF Posts, PostRefused, PostReplyLost, Stop, Fail
  <2>2. /\ pc = "create" /\ GoesOn(i, failed \/ Sourceless)
        /\ \A g \in Fields \ ({"note"} \cup R.leaves) : cloud'[i].goal[g] = Answered[g]
    BY <2>1, PostTracks DEF PostAccepted
  <2>3. made' = i /\ UNCHANGED config
    BY <1>2, <2>2 DEF GoesOn, Returns, CreateReturns, env
  <2> QED BY <1>3, <2>2, <2>3, ConcealedFacts
<1>7. CASE Plans
  BY <1>2, <1>7 DEF Plans, PlanNothing, PlanCreate, PlanUpdate, PlanDelete, NothingPlanned,
       CreatePlanned, UpdatePlanned, DeletePlanned, Goto, LedgerInv, Types, Placed
<1>8. CASE Reads \/ Imports \/ User \/ Stopped
  BY <1>2, <1>8 DEF Reads, ReadOk, ReadFails, ReadRemoves, ReadMisses, Stop, Fail,
       Imports, ImportOk, ImportFails, User, EditConfig, StartRun, StartImport, Goto,
       Stopped, Crash
<1>9. CASE Service
  <2>1. PICK i \in Ids :
           /\ \A j \in Ids \ {i} : cloud'[j] = cloud[j]
           /\ UNCHANGED <<made, pc, config>>
           /\ \/ cloud[i].status = "PENDING" /\ cloud'[i].goal = cloud[i].goal
              \/ cloud'[i].status = "GONE"
    BY <1>1, <1>9, ServiceMoves
  <2>2. made \in Ids /\ Exists(made) /\ cloud'[made].goal = cloud[made].goal
    BY <1>2, <1>4, <2>1 DEF Exists
  <2> QED BY <1>2, <1>3, <2>1, <2>2 DEF MadeAsAnswered
<1>10. CASE UNCHANGED allVars
  BY <1>2, <1>3, <1>10 DEF allVars, vars, MadeAsAnswered, Exists
<1> QED BY <1>5, <1>6, <1>7, <1>8, <1>9, <1>10, NextSteps

(* What a Create records of what Read does not see.                        *)
LEMMA CreateRemembers ==
  ASSUME LedgerInv, entry = NoId, NEW f \in Concealed, NEW attrs,
         NEW record \in {Answered, Planned, Recorded(attrs, Planned), CreateRecord(attrs)}
  PROVE  Resolved(record)[f] \in {Null, Answered[f]}
<1>1. f \in Fields /\ f \in R.fields /\ f \notin R.reads /\ f \notin R.learns /\ f \in R.posted
  BY ConcealedFacts DEF Concealed
<1>2. Planned[f] \in {Unknown, Null, Answered[f]}
  <2>1. Answered[f] = IF config.attrs[f] # Null THEN config.attrs[f] ELSE Default[f]
    BY <1>1 DEF Answered
  <2> QED BY <1>1, <2>1, PlannedConfigured
<1>3. record[f] \in {Null, Answered[f], Planned[f]}
  BY <1>1 DEF Recorded, CreateRecord
<1> QED BY <1>1, <1>2, <1>3 DEF Resolved

(* What an Update is to do to what Read does not see is nothing, unless it *)
(* is a handler of one request.                                            *)
LEMMA KeptConcealed ==
  ASSUME LedgerInv, Staying, pc = "update", NEW f \in Concealed, f \in R.replace \ R.sets
  PROVE  /\ Planned[f] \in {Unknown, known[f]}
         /\ \A c : f \in Carried(c) => Planned[f] = known[f]
<1>1. ~ReplacesFor(f) /\ f \notin R.sets
  BY DEF Staying, Replaces, Concealed
<1>2. Planned[f] \in {Unknown, known[f]}
  BY <1>1 DEF ReplacesFor, ReplaceIfChangeAndNotIsNotSetOnPlan
<1> QED BY <1>2 DEF Carried, Differs

LEMMA UpdateRemembers ==
  ASSUME LedgerInv, Staying, Calls, ~Fault, pc = "update", NEW f \in Concealed,
         known[f] \in {Null, cloud[entry].goal[f]}
  PROVE  known'[f] \in {Null, cloud'[entry].goal[f]}
<1> DEFINE goal == cloud[entry].goal[f]
           next == cloud'[entry].goal[f]
           record == UpdateRecord(cloud'[entry].attrs)
<1>1. entry \in Ids /\ Target = entry /\ cloud \in [Ids -> Object]
  BY DEF LedgerInv, Types, TypeOK, Placed, Target
<1>2. f \in Fields /\ f \notin R.reads /\ Code = R.update
  BY ConcealedFacts DEF Concealed, Code
<1>3. DOMAIN Code = 1 .. Len(Code) /\ Len(Code) \in Nat /\ at \in 1 .. Len(Code) + 1
  BY CodeTyped DEF Code, LedgerInv, Types, TypeOK, HandlerPCs
<1>4. \/ UNCHANGED known /\ Stop
      \/ UNCHANGED known /\ at < Len(Code)
      \/ at >= Len(Code) /\ known' = Resolved(record)
  <2>1. Stop \/ GoesOnWith(TRUE) \/ Proceeds
    BY CallTakes DEF KeepsMade, GoesOnBadly, RollsBack
  <2> QED BY <2>1 DEF Stop, Fail, GoesOnWith, Proceeds, GoesOn, Returns, UpdateReturns
<1>5. record[f] = IF R.records = "plan" THEN Planned[f]
                  ELSE IF R.records = "read" THEN known[f]
                  ELSE IF \E n \in DOMAIN R.update : f \in Carried(R.update[n])
                       THEN Planned[f] ELSE known[f]
  BY <1>2 DEF UpdateRecord, Recorded
<1> HIDE DEF record
<1>6. known' = Resolved(record) => known'[f] \in {Null, record[f]}
  BY <1>2 DEF Resolved
<1>7. \/ next = goal
      \/ /\ SendAccepted /\ Proceeds /\ at \in DOMAIN Code
         /\ next = IF f \in Carried(Cur) THEN Planned[f] ELSE goal
  BY <1>1, <1>2, CalmGoals
<1> HIDE DEF goal, next
<1>8. CASE f \in R.replace \ R.sets
  <2>1. Planned[f] \in {Unknown, known[f]} /\ \A c : f \in Carried(c) => Planned[f] = known[f]
    BY <1>8, KeptConcealed
  <2>2. next \in {goal, known[f]}
    BY <1>7, <2>1
  <2>3. \A n \in DOMAIN R.update : f \in Carried(R.update[n]) => Planned[f] = known[f]
    BY <2>1
  <2>4. record[f] \in {Unknown, known[f]}
    BY <1>5, <2>1
  <2>5. known'[f] \in {Null, known[f]}
    <3>1. known' = Resolved(record) => known'[f] = IF record[f] = Unknown THEN Null ELSE record[f]
      BY <1>2 DEF Resolved
    <3> QED BY <1>4, <2>4, <3>1
  <2>6. known[f] \in {Null, goal}
    BY DEF goal
  <2> QED BY <2>2, <2>5, <2>6 DEF next
<1>9. CASE R.records = "changed" /\ Len(R.update) \in {0, 1}
  <2>1. Len(Code) \in {0, 1} /\ at \in Nat /\ at >= 1
    BY <1>2, <1>3, <1>9
  <2>2. CASE \E n \in DOMAIN R.update : f \in Carried(R.update[n])
    <3>1. Len(Code) = 1 /\ f \in Carried(Code[1]) /\ 1 \in DOMAIN Code
      BY <1>2, <1>3, <2>1, <2>2
    <3>2. record[f] = Planned[f]
      BY <1>5, <1>9, <2>2
    <3>3. CASE Stop /\ UNCHANGED known
      <4>1. CASE next = goal
        BY <3>3, <4>1 DEF goal, next
      <4>2. CASE next # goal
        <5>1. at = 1 /\ next = Planned[f] /\ Proceeds
          BY <1>3, <1>7, <3>1, <4>2
        <5>2. known' = Resolved(record)
          BY <3>1, <5>1 DEF Proceeds, GoesOn, Returns, UpdateReturns, record
        <5> QED BY <1>6, <3>2, <5>1, <5>2 DEF next
      <4> QED BY <4>1, <4>2
    <3>4. CASE at >= Len(Code) /\ known' = Resolved(record)
      <4>1. CASE at \in DOMAIN Code /\ Asked(Target)
        <5>1. at = 1 /\ f \in Carried(Cur)
          BY <1>3, <3>1, <4>1 DEF Cur
        <5>2. next = Planned[f]
          BY <1>1, <1>2, <4>1, <5>1 DEF Asked, Object, next
        <5> QED BY <1>6, <3>2, <3>4, <5>2 DEF next
      <4>2. CASE at \in DOMAIN Code /\ ~(Cur.call = "send" /\ Hit(Cur, Diff))
        <5>1. at = 1 /\ f \in Carried(Cur)
          BY <1>3, <3>1, <4>2 DEF Cur
        <5> QED BY <4>2, <5>1, Uncarried
      <4>3. CASE Stop
        BY <3>3, <4>3 DEF Stop, Fail
      <4>4. \/ Stop \/ (at \in DOMAIN Code /\ Asked(Target))
            \/ at \in DOMAIN Code /\ ~(Cur.call = "send" /\ Hit(Cur, Diff))
        <5>1. Code # << >>
          BY <3>1
        <5> QED BY <5>1, CallTakes DEF KeepsMade, GoesOnBadly, RollsBack
      <4> QED BY <4>1, <4>2, <4>3, <4>4
    <3> QED BY <1>3, <1>4, <2>1, <3>1, <3>3, <3>4
  <2>3. CASE ~\E n \in DOMAIN R.update : f \in Carried(R.update[n])
    <3>1. record[f] = known[f] /\ known'[f] \in {Null, known[f]}
      BY <1>4, <1>5, <1>6, <1>9, <2>3
    <3>2. next = goal
      BY <1>2, <1>7, <2>3 DEF Cur
    <3> QED BY <3>1, <3>2 DEF goal, next
  <2> QED BY <2>2, <2>3
<1> QED BY <1>8, <1>9, ConcealedFacts

(* What a call leaves of the entry.                                        *)
LEMMA CallsEntry ==
  ASSUME LedgerInv, Calls
  PROVE  \/ entry' = NoId
         \/ pc = "delete" /\ UNCHANGED <<entry, known>>
         \/ pc = "update" /\ UNCHANGED entry
         \/ pc = "create" /\ KeepsMade
         \/ pc = "create" /\ \E e : CreateReturns(made, e)
<1>1. InCall /\ Outcome
  BY CallsOutcome DEF LedgerInv
<1>2. CASE pc = "create"
  <2>1. entry = NoId
    BY <1>2 DEF LedgerInv, Types, Placed
  <2>2. CASE Stop \/ RollsBack
    BY <2>1, <2>2 DEF Stop, Fail, RollsBack
  <2>3. CASE GoesOnBadly \/ Proceeds
    BY <1>2, <2>1, <2>3 DEF GoesOnBadly, GoesOnWith, Proceeds, GoesOn, Returns
  <2> QED BY <1>2, <2>2, <2>3, CallTakes
<1>3. CASE pc = "update"
  BY <1>1, <1>3 DEF Outcome, Stop, Fail, Keeps, RollsBack, FindsNothing, GoesOnWith, GoesOn,
       Returns, UpdateReturns
<1>4. CASE pc = "delete"
  BY <1>1, <1>4 DEF Outcome, Stop, Fail, Keeps, RollsBack, FindsNothing, GoesOnWith, GoesOn,
       Returns, DeleteReturns
<1> QED BY <1>1, <1>2, <1>3, <1>4 DEF InCall, HandlerPCs

LEMMA RememberedKept ==
  ASSUME LedgerInv, Staying, Remembered, MadeAsAnswered, [Next]_allVars, faults' = 0
  PROVE  Remembered'
<1>1. ~Fault /\ R' = R /\ Concealed' = Concealed
  BY FaultsGrow DEF Concealed
<1>2. SUFFICES ASSUME entry' # NoId, cloud'[entry'].status # "GONE", NEW f \in Concealed
               PROVE  known'[f] \in {Null, cloud'[entry'].goal[f]}
  BY <1>1 DEF Remembered, Exists
<1>3. entry \in Ids \cup {NoId} /\ made \in Ids \cup {NoId} /\ f \in Fields
  BY ConcealedFacts DEF LedgerInv, Types, TypeOK
<1>4. ASSUME UNCHANGED <<entry, known, cloud>>
      PROVE  known'[f] \in {Null, cloud'[entry'].goal[f]}
  BY <1>2, <1>4 DEF Remembered, Exists
<1>5. CASE Calls
  <2>1. InCall /\ Outcome /\ Reaches
    BY <1>5, CallsOutcome DEF LedgerInv
  <2>2. ASSUME entry' = entry, entry # NoId
        PROVE  entry \in Ids /\ known[f] \in {Null, cloud[entry].goal[f]}
    <3>1. entry \in Ids
      BY <1>3, <2>2
    <3>2. Exists(entry)
      BY <1>2, <2>1, <2>2, <3>1 DEF Reaches, Exists
    <3> QED BY <2>2, <3>1, <3>2 DEF Remembered
  <2>3. CASE pc = "delete" /\ UNCHANGED <<entry, known>>
    <3>1. cloud'[entry].goal = cloud[entry].goal
      BY <1>1, <1>2, <1>5, <2>2, <2>3, CalmGoals
    <3> QED BY <1>2, <2>2, <2>3, <3>1
  <2>4. CASE pc = "update" /\ UNCHANGED entry
    BY <1>1, <1>2, <1>5, <2>2, <2>4, UpdateRemembers
  <2>5. ASSUME pc = "create", entry' = made, NEW attrs,
               NEW record \in {Answered, Planned, Recorded(attrs, Planned), CreateRecord(attrs)},
               known' = Resolved(record)
        PROVE  known'[f] \in {Null, cloud'[entry'].goal[f]}
    <3>1. made \in Ids /\ made # NoId /\ entry = NoId
      BY <1>2, <1>3, <2>5 DEF LedgerInv, Types, Placed
    <3>2. Exists(made)
      BY <1>2, <2>1, <2>5, <3>1 DEF Reaches, Exists
    <3>3. cloud'[made].goal[f] = Answered[f]
      BY <1>1, <1>5, <2>5, <3>1, <3>2, CreateConceals DEF MadeAsAnswered
    <3>4. Resolved(record)[f] \in {Null, Answered[f]}
      BY <3>1, CreateRemembers
    <3> QED BY <2>5, <3>3, <3>4
  <2>6. CASE pc = "create" /\ KeepsMade
    <3>1. PICK record \in {Answered, Planned, Recorded(cloud[made].attrs, Planned)} :
            entry' = made /\ known' = Resolved(record)
      BY <2>6 DEF KeepsMade, Keep
    <3> QED BY <2>5, <2>6, <3>1
  <2>7. CASE pc = "create" /\ \E e : CreateReturns(made, e)
    <3>1. entry' = made /\ known' = Resolved(CreateRecord(cloud'[made].attrs))
      BY <2>7 DEF CreateReturns
    <3> QED BY <2>5, <2>7, <3>1
  <2> QED BY <1>2, <1>5, <2>3, <2>4, <2>6, <2>7, CallsEntry
<1>6. CASE Posts
  <2>1. pc = "create" /\ entry = NoId
    <3>1. At("post")
      BY <1>6 DEF Posts, PostRefused, PostAccepted, PostReplyLost, Posted
    <3>2. pc \in HandlerPCs /\ at \in DOMAIN Code /\ Cur.call = "post"
      BY <3>1 DEF At
    <3> QED BY <3>2, CallPlaces DEF LedgerInv, Types, Placed
  <2>2. PICK i \in Ids : PostAccepted(i)
    BY <1>1, <1>2, <1>6, <2>1 DEF Posts, PostRefused, PostReplyLost, Stop, Fail
  <2>3. GoesOn(i, failed \/ Sourceless) /\ cloud'[i].goal[f] = Answered[f]
    BY <2>2, PostTracks, ConcealedFacts DEF PostAccepted
  <2>4. entry' = i /\ known' = Resolved(CreateRecord(cloud'[i].attrs))
    BY <1>2, <2>1, <2>3 DEF GoesOn, Returns, CreateReturns
  <2>5. Resolved(CreateRecord(cloud'[i].attrs))[f] \in {Null, Answered[f]}
    BY <2>1, CreateRemembers
  <2> QED BY <2>3, <2>4, <2>5
<1>7. CASE Plans \/ User \/ Stopped \/ UNCHANGED allVars
  <2>1. UNCHANGED <<entry, known, cloud>>
    BY <1>7 DEF Plans, PlanNothing, PlanCreate, PlanUpdate, PlanDelete, NothingPlanned,
       CreatePlanned, UpdatePlanned, DeletePlanned, Goto, User, EditConfig, StartRun,
       StartImport, Stopped, Crash, Fail, allVars, vars
  <2> QED BY <1>4, <2>1
<1>8. CASE Reads
  <2>1. UNCHANGED cloud
    BY <1>8, CloudStays
  <2>2. \/ UNCHANGED <<entry, known>>
        \/ UNCHANGED entry /\ known' = Recorded(cloud[entry].attrs, known)
    BY <1>1, <1>2, <1>8 DEF Reads, ReadOk, ReadFails, ReadRemoves, ReadMisses, Stop, Fail
  <2>3. Recorded(cloud[entry].attrs, known)[f] = known[f]
    BY <1>3 DEF Recorded, Concealed
  <2> QED BY <1>2, <2>1, <2>2, <2>3 DEF Remembered, Exists
<1>9. CASE Imports
  <2>1. CASE ImportOk
    <3>1. known' = Recorded(cloud[made].attrs, [g \in Fields |-> Null])
      BY <2>1 DEF ImportOk, Unrecorded
    <3>2. known'[f] = Null
      BY <1>3, <3>1 DEF Recorded, Concealed
    <3> QED BY <3>2
  <2>2. CASE ImportFails
    BY <1>4, <2>2 DEF ImportFails
  <2> QED BY <1>9, <2>1, <2>2 DEF Imports
<1>10. CASE Service
  <2>1. PICK i \in Ids :
           /\ \A j \in Ids \ {i} : cloud'[j] = cloud[j]
           /\ UNCHANGED <<entry, known>>
           /\ \/ cloud[i].status = "PENDING" /\ cloud'[i].goal = cloud[i].goal
              \/ cloud'[i].status = "GONE"
    BY <1>1, <1>10, ServiceMoves
  <2>2. entry \in Ids /\ Exists(entry) /\ cloud'[entry].goal = cloud[entry].goal
    BY <1>2, <1>3, <2>1 DEF Exists
  <2> QED BY <1>2, <2>1, <2>2 DEF Remembered
<1> QED BY <1>5, <1>6, <1>7, <1>8, <1>9, <1>10, NextSteps

LEMMA UnreadKept ==
  ASSUME LedgerInv, Staying, Unread, [Next]_allVars
  PROVE  Unread'
BY FaultsGrow, RememberedKept, MadeAsAnsweredKept DEF Unread

-----------------------------------------------------------------------------
(* What the state records after a run that ended well, and what such a run *)
(* means.                                                                  *)
RecordInv ==
  /\ ReadySteady /\ Forgotten /\ Suited /\ Tracking
  /\ RecordAgrees /\ RecordedAsConfigured /\ Present /\ Unread

LEMMA InitRecords == PInit => RecordInv
<1>1. SUFFICES ASSUME PInit PROVE RecordInv
  OBVIOUS
<1>2. ReadySteady
  BY <1>1 DEF PInit, Init, ReadySteady, NoObject
<1> QED BY <1>1, <1>2 DEF PInit, Init, RecordInv, Forgotten, Suited, Tracking, Following,
           RecordAgrees, RecordedAsConfigured, Present, PlansPresent, CreatesPresent,
           EndsPresent, Unread, Remembered, MadeAsAnswered

LEMMA NextRecords ==
  ASSUME LedgerInv, SeenInv, Changing, Staying, Resting, Polled, RecordInv, [Next]_allVars
  PROVE  RecordInv'
BY SteadyKept, ForgottenKept, SuitedKept, TrackingKept, AgreesKept, ConfiguredKept,
   PresentKept, UnreadKept DEF RecordInv

(* Everything that a run of any of the resources leaves true, in one       *)
(* inductive invariant: what the service was asked for so far by the       *)
(* running handler, what it was answered, and what is recorded.            *)
LEMMA RecordsKept == Spec => [](LedgerInv /\ RecordInv)
<1>1. PInit => Changing /\ Staying /\ Resting /\ Polled /\ SeenInv
  <2>1. PInit => Changing /\ Staying /\ Resting /\ Polled
    BY DEF PInit, Init, Changing, Staying, Resting, Polled
  <2> QED BY <2>1, InitSees
<1>2. LedgerInv /\ Changing /\ [Next]_allVars => Changing'
  BY ChangingKept
<1>3. LedgerInv /\ Staying /\ [Next]_allVars => Staying'
  BY StayingKept
<1>4. LedgerInv /\ Resting /\ [Next]_allVars => Resting'
  BY RestingKept
<1>5. LedgerInv /\ Polled /\ [Next]_allVars => Polled'
  BY PolledKept
<1>6. LedgerInv /\ Changing /\ SeenInv /\ [Next]_allVars => SeenInv'
  BY NextSees
<1>7. /\ LedgerInv /\ SeenInv /\ Changing /\ Staying /\ Resting /\ Polled /\ RecordInv
      /\ [Next]_allVars
      => RecordInv'
  BY NextRecords
<1> QED BY <1>1, <1>2, <1>3, <1>4, <1>5, <1>6, <1>7, InitRecords, LedgerInvariant, PTL
        DEF Spec

(* What the state records between two runs is what the service will have,  *)
(* whatever the handlers sent, skipped and waited for, whichever of their  *)
(* calls failed, and however the service moved while they ran: an update   *)
(* records as planned only what a request carried, or what the refresh     *)
(* before it found.                                                        *)
THEOREM RecordsAgree == Spec => []RecordAgrees
<1>1. LedgerInv /\ RecordInv => RecordAgrees
  BY DEF RecordInv
<1> QED BY <1>1, RecordsKept, PTL

(* A run that ended without an error leaves the object as configured: what *)
(* it recorded is what is configured, and the service will have it.  What  *)
(* Read does not see is part of that as long as nothing failed, because it *)
(* is sent with the creation and a change of it replaces the object, or is *)
(* recorded only by the handler of one request that carried it.            *)
THEOREM SuccessIsConfigured == Spec => []SuccessMeansConfigured
<1>1. ASSUME LedgerInv, RecordInv, Resting PROVE SuccessMeansConfigured
  <2>1. SUFFICES ASSUME settled, config.want
                 PROVE  /\ entry # NoId
                        /\ \/ cloud[entry].status = "ERROR"
                           \/ \A f \in R.fields :
                                 \/ config.attrs[f] \in {Null, cloud[entry].goal[f]}
                                 \/ f \notin R.reads /\ faults > 0
                                 \/ f \in R.pinned
    BY DEF SuccessMeansConfigured
  <2>2. /\ entry # NoId /\ Exists(entry) /\ pc = "idle"
        /\ \A f \in R.fields \ R.pinned : config.attrs[f] \in {Null, known[f]}
    BY <1>1, <2>1 DEF RecordInv, RecordedAsConfigured, Present, EndsPresent, Resting
  <2>3. ASSUME cloud[entry].status # "ERROR", NEW f \in (R.fields \cap R.reads) \ R.pinned
        PROVE  config.attrs[f] \in {Null, cloud[entry].goal[f]}
    BY <1>1, <2>1, <2>2, <2>3 DEF RecordInv, RecordAgrees
  <2>4. ASSUME NEW f \in (R.fields \ R.reads) \ R.pinned, ~(faults > 0)
        PROVE  config.attrs[f] \in {Null, cloud[entry].goal[f]}
    <3>1. faults = 0
      BY <1>1, <2>4 DEF LedgerInv, Types, TypeOK
    <3> QED BY <1>1, <2>2, <2>4, <3>1 DEF RecordInv, Unread, Remembered, Concealed
  <2> QED BY <2>2, <2>3, <2>4
<1>2. PInit => Resting
  BY DEF PInit, Init, Resting
<1>3. LedgerInv /\ Resting /\ [Next]_allVars => Resting'
  BY RestingKept
<1> QED BY <1>1, <1>2, <1>3, RecordsKept, LedgerInvariant, PTL DEF Spec

=============================================================================
