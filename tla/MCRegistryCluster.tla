--------------------------- MODULE MCRegistryCluster ---------------------------
(***************************************************************************)
(* RegistryCluster with a manifest m1 of an image that has a layer, and an *)
(* m2 that names the image without its size and by a content type that has *)
(* no schema.                                                              *)
(***************************************************************************)
EXTENDS RegistryCluster, TLC

CONSTANTS n1, n2, repo, fork, layer, image, m1, m2, latest

MCFound ==
    LET named(d, schema, size) == [digest |-> d, schema |-> schema, size |-> size]
    IN     layer :> {}
        @@ image :> {named(layer, FALSE, "right")}
        @@ m1 :> {named(image, TRUE, "right")}
        @@ m2 :> {named(image, FALSE, "none")}

Uploaded(d) ==
    <<[type |-> "Mounted", key |-> BlobOf(d), repository |-> repo, timestamp |-> 0],
      Sizing(BlobOf(d)), Storing(BlobOf(d), n1)>>

Pushed(d, infos) ==
    <<[type |-> "Mounted", key |-> ImageOf(d), repository |-> repo, timestamp |-> 0],
      Storing(ImageOf(d), n1), Sizing(ImageOf(d)), Describing(ImageOf(d), Content[d])>>
    \o infos
    \o <<[type |-> "HashTagged", repository |-> repo, tag |-> latest, digest |-> d]>>

Gone(k) == <<[type |-> "Unmounted", key |-> k, repository |-> repo], Unstoring(k, n1)>>

\* Histories the registry may have had: nothing; two uploads; the image deleted
\* again; a push of m1; one of m2 under the same tag; the first half of the
\* collection of m1; all of it.
Histories ==
    LET uploads == Uploaded(layer) \o Uploaded(image)
        push1 == uploads \o Pushed(m1, <<Describing(BlobOf(image), {layer}),
                                         Describing(BlobOf(layer), {})>>)
        push2 == push1 \o Pushed(m2, <<>>)
        half(k) == SubSeq(Gone(k), 1, 1)
    IN  {<<>>, uploads, uploads \o half(BlobOf(image)), push1, push2,
         push2 \o half(ImageOf(m1)), push2 \o Gone(ImageOf(m1))}

MCInit ==
    /\ \E h \in Histories :
          /\ tables = Applying([EmptyTables EXCEPT !.membership = Node], h).tables
          /\ files = [n \in Node |-> {k \in Key : Present(k) /\ n \in row(k).locations}]
    /\ clock = 0
    /\ task = [w \in Worker |-> NoTask]
    /\ begun = 0
    /\ poison = {}
    /\ dropped = {} /\ unlogged = {} /\ crossed = {} /\ overlapped = {} /\ botched = {}

Workers == Permutations(Worker)

\* Nobody uploads a manifest as a blob, too; all is pushed to repo, and from
\* there only the image is mounted in its fork.  Which node takes a mount or a
\* DELETE makes no difference.
Small ==
    \A w \in Worker : task'[w] # NoTask =>
        LET t == task'[w]
        IN  /\ t.op = "upload" => t.key[2] \notin Images
            /\ t.op # "mount" =>
                  \A a \in Range(t.actions) : a.type = "Mounted" => a.repository = repo
            /\ t.op = "mount" => t.key[2] = image
            /\ t.op \in {"mount", "delete"} => t.node = n1

\* Nothing is applied after an entry that panics.
MCNext == poison = {} /\ Next /\ Small

MCSpec == MCInit /\ [][MCNext]_vars

=============================================================================
