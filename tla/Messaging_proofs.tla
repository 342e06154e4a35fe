-------------------------- MODULE Messaging_proofs --------------------------
(***************************************************************************)
(* Theorems about Messaging.  That a file is lost to a twin only holds for *)
(* any number of processes; that a recalled message is not marked as read  *)
(* rests on one API process.                                               *)
(***************************************************************************)
EXTENDS Messaging, TLAPS

Steps == {"idle", "file", "attachment", "message", "wipe", "unlink", "mark", "report", "delete"}

Types ==
  /\ now \in Nat
  /\ messages \in Seq(Message \cup {None})
  /\ attachments \in Seq(Files)
  /\ pc \in [Processes -> Steps]
  /\ req = [p \in Processes |-> req[p]]

-----------------------------------------------------------------------------
(* Who has an attachment *)

\* The file of a, or another row with its path.
Safe(a) ==
  \/ attachments[a] \in disk
  \/ \E b \in DOMAIN attachments \ {a} : attachments[b] = attachments[a]

\* No message but n has a.
HeldByOnly(a, n) ==
  \A m \in DOMAIN messages \ {n} : messages[m] # None => messages[m].attachment # a

RowsSound ==
  \A m \in DOMAIN messages :
    /\ messages[m] # None
    /\ messages[m].attachment # None
    => /\ messages[m].attachment \in DOMAIN attachments
       /\ HeldByOnly(messages[m].attachment, m)
       /\ Safe(messages[m].attachment)

\* What a request holds between two statements, whatever others did meanwhile.
RequestSound(s, r) ==
  /\ s \in {"file", "attachment"} =>
       r \in [post : Post, attachment : {None}] /\ r.post.file \in Files
  /\ s = "attachment" =>
       r.post.file \in disk \/ \E b \in DOMAIN attachments : attachments[b] = r.post.file
  /\ s = "message" =>
       /\ r.post \in Post
       /\ r.attachment # None =>
            /\ r.attachment \in DOMAIN attachments
            /\ HeldByOnly(r.attachment, None) /\ Safe(r.attachment)
  /\ s = "wipe" /\ r.attachment # None =>
       r.attachment \in DOMAIN attachments /\ HeldByOnly(r.attachment, r.id)
  /\ s = "unlink" =>
       r.attachment \in DOMAIN attachments /\ HeldByOnly(r.attachment, None)

RequestsSound == \A p \in Processes : RequestSound(pc[p], req[p])

\* An attachment whose message is still to come is nobody else's.
PendingApart ==
  \A p, q \in Processes :
    /\ p # q /\ pc[p] = "message" /\ req[p].attachment # None
    /\ pc[q] \in {"message", "wipe", "unlink"}
    => req[q].attachment # req[p].attachment

FilesInv == Types /\ RowsSound /\ RequestsSound /\ PendingApart

-----------------------------------------------------------------------------
(* Steps that leave messages and attachments alone *)

LEMMA NoneApart == None \notin Nat /\ None \notin Files /\ None \notin Message
  BY MessagingAssumption

\* A process goes on to step s with r, and no file goes.
LEMMA StepAside ==
  ASSUME FilesInv, NEW p \in Processes, NEW s \in Steps, NEW r,
         UNCHANGED <<messages, attachments>>, disk \subseteq disk', now' \in Nat,
         pc' = [pc EXCEPT ![p] = s], req' = [req EXCEPT ![p] = r],
         RequestSound(s, r)',
         s = "message" => r.attachment = None,
         s \in {"wipe", "unlink"} =>
           \A q \in Processes \ {p} :
             pc[q] = "message" /\ req[q].attachment # None => r.attachment # req[q].attachment
  PROVE  FilesInv'
<1> USE DEF FilesInv
<1>1. Types'
  BY DEF Types
<1>2. RowsSound'
  BY DEF RowsSound, HeldByOnly, Safe
<1>3. RequestsSound'
  BY DEF RequestsSound, RequestSound, HeldByOnly, Safe, Types
<1>4. PendingApart'
  BY DEF PendingApart, Types
<1> QED
  BY <1>1, <1>2, <1>3, <1>4

LEMMA GoIdle ==
  ASSUME FilesInv, NEW p \in Processes, UNCHANGED <<now, messages, attachments>>,
         disk \subseteq disk', pc' = [pc EXCEPT ![p] = "idle"], req' = [req EXCEPT ![p] = None]
  PROVE  FilesInv'
<1>1. RequestSound("idle", None)'
  BY DEF RequestSound
<1> QED
  BY <1>1, StepAside DEF Steps, FilesInv, Types

-----------------------------------------------------------------------------
(* The other steps, one by one *)

LEMMA FilesInit == Init => FilesInv
<1> SUFFICES ASSUME Init PROVE FilesInv
  OBVIOUS
<1>1. Types
  BY DEF Init, Types, Steps
<1>2. RowsSound /\ RequestsSound /\ PendingApart
  BY DEF Init, RowsSound, RequestsSound, RequestSound, PendingApart
<1> QED
  BY <1>1, <1>2 DEF FilesInv

LEMMA NextSend ==
  ASSUME FilesInv, NEW w \in Workers, NEW p \in Posts, AskSend(w, p)
  PROVE  FilesInv'
<1> DEFINE r == [post |-> p, attachment |-> None]
           s == IF p.file = None THEN "message" ELSE "file"
<1>1. p \in Post /\ w \in Processes /\ now \in Nat
  BY MessagingAssumption DEF Processes, FilesInv, Types
<1>2. /\ UNCHANGED <<now, messages, attachments, disk>>
      /\ pc' = [pc EXCEPT ![w] = s] /\ req' = [req EXCEPT ![w] = r]
  BY DEF AskSend, Begin, tables
<1>3. r.post = p /\ r.attachment = None
  OBVIOUS
<1>4. RequestSound(s, r)'
  <2>1. s = "file" => r \in [post : Post, attachment : {None}] /\ r.post.file \in Files
    BY <1>1 DEF Post
  <2>2. s \in {"file", "message"}
    OBVIOUS
  <2> HIDE DEF s, r
  <2> QED
    BY <1>1, <1>3, <2>1, <2>2 DEF RequestSound
<1>5. s \in Steps /\ s \notin {"wipe", "unlink"}
  BY DEF Steps
<1> HIDE DEF s, r
<1> QED
  BY <1>1, <1>2, <1>3, <1>4, <1>5, StepAside

LEMMA NextWriteFile ==
  ASSUME FilesInv, NEW w \in Workers, WriteFile(w)
  PROVE  FilesInv'
<1>1. PICK r : r = req[w]
  OBVIOUS
<1>2. w \in Processes /\ now \in Nat /\ RequestSound("file", r)
  BY <1>1 DEF Processes, FilesInv, Types, RequestsSound, WriteFile
<1>3. /\ UNCHANGED <<now, messages, attachments>> /\ disk' = disk \cup {r.post.file}
      /\ pc' = [pc EXCEPT ![w] = "attachment"] /\ req' = [req EXCEPT ![w] = r]
  BY <1>1 DEF WriteFile, Continue
<1>4. RequestSound("attachment", r)'
  BY <1>2, <1>3 DEF RequestSound
<1> QED
  BY <1>2, <1>3, <1>4, StepAside DEF Steps

LEMMA NextInsertAttachment ==
  ASSUME FilesInv, NEW w \in Workers, InsertAttachment(w)
  PROVE  FilesInv'
<1> USE DEF FilesInv
<1>1. PICK id, file : id = Len(attachments) + 1 /\ file = req[w].post.file
  OBVIOUS
<1>2. /\ w \in Processes /\ pc[w] = "attachment"
      /\ req[w] \in [post : Post, attachment : {None}] /\ file \in Files
      /\ file \in disk \/ \E b \in DOMAIN attachments : attachments[b] = file
  BY <1>1 DEF Processes, RequestsSound, RequestSound, InsertAttachment
<1>3. PICK r : r = [req[w] EXCEPT !.attachment = id]
  OBVIOUS
<1>4. r.post \in Post /\ r.attachment = id
  BY <1>2, <1>3
<1>5. /\ UNCHANGED <<now, messages, disk>> /\ attachments' = Append(attachments, file)
      /\ pc' = [pc EXCEPT ![w] = "message"] /\ req' = [req EXCEPT ![w] = r]
  BY <1>1, <1>3 DEF InsertAttachment, Continue
<1>6. /\ id \in Nat /\ id \notin DOMAIN attachments /\ DOMAIN attachments' = DOMAIN attachments \cup {id}
      /\ attachments'[id] = file
      /\ \A a \in DOMAIN attachments : attachments'[a] = attachments[a]
  BY <1>1, <1>2, <1>5 DEF Types
<1>7. \A a \in DOMAIN attachments : Safe(a) => Safe(a)'
  BY <1>5, <1>6 DEF Safe
<1>8. Safe(id)'
  BY <1>2, <1>5, <1>6 DEF Safe
<1>9. id # None
  BY <1>6, NoneApart
<1>10. HeldByOnly(id, None)'
  BY <1>5, <1>6, <1>9 DEF RowsSound, HeldByOnly
<1>11. Types'
  <2>1. attachments' \in Seq(Files)
    BY <1>2, <1>5 DEF Types
  <2>2. pc' \in [Processes -> Steps]
    BY <1>5 DEF Types, Steps
  <2>3. req' = [q \in Processes |-> req'[q]]
    BY <1>5 DEF Types
  <2> QED
    BY <1>5, <2>1, <2>2, <2>3 DEF Types
<1>12. RowsSound'
  BY <1>5, <1>6, <1>7 DEF RowsSound, HeldByOnly
<1>13. pc'[w] = "message" /\ req'[w] = r
  BY <1>2, <1>5 DEF Types
<1>14. \A q \in Processes \ {w} : pc'[q] = pc[q] /\ req'[q] = req[q]
  BY <1>5 DEF Types
<1>15. RequestsSound'
  <2>1. RequestSound(pc[w], req[w])'
    BY <1>13, <1>4, <1>6, <1>8, <1>10 DEF RequestSound
  <2>2. ASSUME NEW q \in Processes \ {w} PROVE RequestSound(pc[q], req[q])'
    BY <1>14, <1>5, <1>6, <1>7 DEF RequestsSound, RequestSound, HeldByOnly
  <2> QED
    BY <2>1, <2>2 DEF RequestsSound
<1>16. PendingApart'
  <2>1. \A q \in Processes :
          pc[q] \in {"message", "wipe", "unlink"} /\ req[q].attachment # None
          => req[q].attachment # id
    BY <1>6 DEF RequestsSound, RequestSound
  <2> QED
    BY <1>4, <1>9, <2>1, <1>13, <1>14 DEF PendingApart
<1> QED
  BY <1>11, <1>12, <1>15, <1>16

\* An attachment goes from the request that waits for its message to that message.
LEMMA NextInsertMessage ==
  ASSUME FilesInv, NEW w \in Workers, InsertMessage(w)
  PROVE  FilesInv'
<1> USE DEF FilesInv
<1>1. PICK r, n : r = req[w] /\ n = Len(messages) + 1
  OBVIOUS
<1>2. PICK row : row = [conv |-> r.post.conv, sender |-> r.post.by, body |-> r.post.body,
                        attachment |-> r.attachment, read |-> FALSE, recalled |-> FALSE, at |-> now]
  OBVIOUS
<1>3. /\ w \in Processes /\ pc[w] = "message" /\ r.post \in Post
      /\ r.attachment # None =>
           /\ r.attachment \in DOMAIN attachments
           /\ HeldByOnly(r.attachment, None) /\ Safe(r.attachment)
  BY <1>1 DEF Processes, RequestsSound, RequestSound, InsertMessage
<1>4. row.attachment = r.attachment
  BY <1>2
<1>5. row \in Message
  <2>1. r.attachment \in Nat \cup {None}
    BY <1>3 DEF Types
  <2> QED
    BY <1>2, <1>3, <2>1 DEF Message, Post, Types
<1>6. /\ UNCHANGED <<now, attachments, disk>> /\ messages' = Append(messages, row)
      /\ pc' = [pc EXCEPT ![w] = "idle"] /\ req' = [req EXCEPT ![w] = None]
  BY <1>1, <1>2 DEF InsertMessage, Finish, Continue
<1>7. /\ n \notin DOMAIN messages /\ DOMAIN messages' = DOMAIN messages \cup {n}
      /\ messages'[n] = row /\ n # None
      /\ \A m \in DOMAIN messages : messages'[m] = messages[m] /\ m # None
  BY <1>1, <1>5, <1>6, NoneApart DEF Types
<1>8. Types'
  <2>1. messages' \in Seq(Message \cup {None})
    BY <1>5, <1>6 DEF Types
  <2>2. pc' \in [Processes -> Steps]
    BY <1>6 DEF Types, Steps
  <2>3. req' = [q \in Processes |-> req'[q]]
    BY <1>6 DEF Types
  <2> QED
    BY <1>6, <2>1, <2>2, <2>3 DEF Types
<1>9. RowsSound'
  <2>1. ASSUME NEW m \in DOMAIN messages, messages[m] # None, messages[m].attachment # None
        PROVE  /\ messages[m].attachment \in DOMAIN attachments
               /\ HeldByOnly(messages[m].attachment, m)'
               /\ Safe(messages[m].attachment)
    BY <2>1, <1>3, <1>4, <1>7 DEF RowsSound, HeldByOnly
  <2>2. HeldByOnly(r.attachment, n)' \/ r.attachment = None
    BY <1>3, <1>7 DEF HeldByOnly
  <2> QED
    BY <1>3, <1>4, <1>6, <1>7, <2>1, <2>2 DEF RowsSound, HeldByOnly, Safe
<1>10. pc'[w] = "idle"
  BY <1>3, <1>6 DEF Types
<1>11. \A q \in Processes \ {w} : pc'[q] = pc[q] /\ req'[q] = req[q]
  BY <1>6 DEF Types
<1>12. RequestsSound'
  <2>1. RequestSound(pc[w], req[w])'
    BY <1>10 DEF RequestSound
  <2>2. ASSUME NEW q \in Processes \ {w} PROVE RequestSound(pc[q], req[q])'
    <3>1. /\ pc[q] \in {"message", "wipe"} => req[q].attachment = None \/ req[q].attachment # r.attachment
          /\ pc[q] = "unlink" => r.attachment = None \/ req[q].attachment # r.attachment
      BY <1>1, <1>3 DEF PendingApart
    <3>2. pc[q] = "unlink" => req[q].attachment \in DOMAIN attachments /\ req[q].attachment # None
      BY NoneApart DEF RequestsSound, RequestSound, Types
    <3> QED
      BY <3>1, <3>2, <1>4, <1>6, <1>7, <1>11 DEF RequestsSound, RequestSound, HeldByOnly, Safe
  <2> QED
    BY <2>1, <2>2 DEF RequestsSound
<1>13. PendingApart'
  BY <1>10, <1>11 DEF PendingApart
<1> QED
  BY <1>8, <1>9, <1>12, <1>13

LEMMA NextAskRecall ==
  ASSUME FilesInv, NEW w \in Workers, NEW u, NEW m \in DOMAIN messages, AskRecall(w, u, m)
  PROVE  FilesInv'
<1> USE DEF FilesInv
<1>1. PICK r : r = [id |-> m, attachment |-> messages[m].attachment]
  OBVIOUS
<1>2. /\ r.id = m /\ r.attachment = messages[m].attachment /\ messages[m] # None
      /\ w \in Processes /\ now \in Nat
  BY <1>1 DEF AskRecall, Recallable, Exists, Processes, Types
<1>3. /\ UNCHANGED <<now, messages, attachments, disk>>
      /\ pc' = [pc EXCEPT ![w] = "wipe"] /\ req' = [req EXCEPT ![w] = r]
  BY <1>1 DEF AskRecall, Begin, tables
<1>4. RequestSound("wipe", r)'
  BY <1>2, <1>3 DEF RequestSound, RowsSound, HeldByOnly
<1>5. \A q \in Processes \ {w} :
        pc[q] = "message" /\ req[q].attachment # None => r.attachment # req[q].attachment
  <2>1. m # None
    BY NoneApart DEF Types
  <2> QED
    BY <1>2, <2>1 DEF RequestsSound, RequestSound, HeldByOnly
<1> QED
  BY <1>2, <1>3, <1>4, <1>5, StepAside DEF Steps

\* Rows that no longer have the attachment they had, or are gone.
LEMMA RowsLose ==
  ASSUME FilesInv, messages' \in Seq(Message \cup {None}), DOMAIN messages' = DOMAIN messages,
         \A m \in DOMAIN messages :
           \/ messages'[m] = None
           \/ /\ messages[m] # None
              /\ messages'[m].attachment \in {messages[m].attachment, None}
  PROVE  /\ \A a, n : a # None /\ HeldByOnly(a, n) => HeldByOnly(a, n)'
         /\ \A m \in DOMAIN messages' :
              messages'[m] # None /\ messages'[m].attachment # None =>
                /\ messages[m] # None /\ messages'[m].attachment = messages[m].attachment
  BY DEF HeldByOnly

\* Such a change of rows by process p, which goes on to step s with r.
LEMMA StepLose ==
  ASSUME FilesInv, messages' \in Seq(Message \cup {None}), DOMAIN messages' = DOMAIN messages,
         \A m \in DOMAIN messages :
           \/ messages'[m] = None
           \/ /\ messages[m] # None
              /\ messages'[m].attachment \in {messages[m].attachment, None},
         NEW p \in Processes, NEW s \in Steps \ {"message"}, NEW r,
         UNCHANGED <<now, attachments, disk>>,
         pc' = [pc EXCEPT ![p] = s], req' = [req EXCEPT ![p] = r],
         RequestSound(s, r)',
         s \in {"wipe", "unlink"} =>
           \A q \in Processes \ {p} :
             pc[q] = "message" /\ req[q].attachment # None => r.attachment # req[q].attachment
  PROVE  FilesInv'
<1> USE DEF FilesInv
<1>1. /\ \A a, n : a # None /\ HeldByOnly(a, n) => HeldByOnly(a, n)'
      /\ \A m \in DOMAIN messages' :
           messages'[m] # None /\ messages'[m].attachment # None =>
             /\ messages[m] # None /\ messages'[m].attachment = messages[m].attachment
  BY RowsLose
<1>2. Types'
  BY DEF Types
<1>3. RowsSound'
  BY <1>1 DEF RowsSound, Safe
<1>4. pc'[p] = s /\ req'[p] = r
  BY DEF Types
<1>5. \A q \in Processes \ {p} : pc'[q] = pc[q] /\ req'[q] = req[q]
  BY DEF Types
<1>6. RequestsSound'
  <2>1. ASSUME NEW q \in Processes \ {p} PROVE RequestSound(pc[q], req[q])'
    <3>1. pc[q] = "unlink" => req[q].attachment \in DOMAIN attachments /\ req[q].attachment # None
      BY NoneApart DEF RequestsSound, RequestSound, Types
    <3> QED
      BY <1>1, <1>5, <3>1 DEF RequestsSound, RequestSound, Safe
  <2> QED
    BY <2>1, <1>4 DEF RequestsSound
<1>7. PendingApart'
  BY <1>4, <1>5 DEF PendingApart
<1> QED
  BY <1>2, <1>3, <1>6, <1>7

\* What a statement on one row or on all of them makes of a message.
LEMMA WipedRow ==
  ASSUME NEW row \in Message
  PROVE  /\ Wiped(row) \in Message /\ Wiped(row) # None
         /\ Wiped(row).attachment = None /\ Wiped(row).read = row.read
  BY NoneApart DEF Wiped, Message

LEMMA ReadRow ==
  ASSUME NEW row \in Message
  PROVE  /\ [row EXCEPT !.read = TRUE] \in Message
         /\ [row EXCEPT !.read = TRUE].attachment = row.attachment
         /\ [row EXCEPT !.read = TRUE].recalled = row.recalled
  BY DEF Message

\* Sequences whose elements were replaced one for one.
LEMMA MapRows ==
  ASSUME NEW S, NEW s \in Seq(S), NEW t, t = [d \in DOMAIN s |-> t[d]],
         \A d \in DOMAIN s : t[d] \in S
  PROVE  t \in Seq(S) /\ DOMAIN t = DOMAIN s
  OBVIOUS

LEMMA NextWipe ==
  ASSUME FilesInv, NEW w \in Workers, Wipe(w)
  PROVE  FilesInv'
<1> USE DEF FilesInv
<1>1. PICK r, m : r = req[w] /\ m = r.id
  OBVIOUS
<1>2. /\ w \in Processes /\ RequestSound("wipe", r)
      /\ messages' = IF Exists(m) THEN [messages EXCEPT ![m] = Wiped(messages[m])] ELSE messages
      /\ UNCHANGED <<now, attachments, disk>>
  BY <1>1 DEF Processes, RequestsSound, Wipe, Finish, Continue
<1>3. /\ messages' \in Seq(Message \cup {None}) /\ DOMAIN messages' = DOMAIN messages
      /\ m \in DOMAIN messages => messages'[m] = None \/ messages'[m].attachment = None
      /\ \A k \in DOMAIN messages :
           \/ messages'[k] = None
           \/ /\ messages[k] # None
              /\ messages'[k].attachment \in {messages[k].attachment, None}
  <2>1. CASE Exists(m)
    <3>1. m \in DOMAIN messages /\ messages[m] \in Message
      BY <2>1 DEF Exists, Types
    <3>2. Wiped(messages[m]) \in Message /\ Wiped(messages[m]).attachment = None
      BY <3>1, WipedRow
    <3> QED
      BY <1>2, <2>1, <3>1, <3>2 DEF Types, Exists
  <2>2. CASE ~Exists(m)
    BY <1>2, <2>2 DEF Types, Exists
  <2> QED
    BY <2>1, <2>2
<1>4. CASE r.attachment = None
  <2>1. pc' = [pc EXCEPT ![w] = "idle"] /\ req' = [req EXCEPT ![w] = None]
    BY <1>1, <1>4 DEF Wipe, Finish, Continue
  <2>2. RequestSound("idle", None)'
    BY DEF RequestSound
  <2> QED
    BY <1>2, <1>3, <2>1, <2>2, StepLose DEF Steps
<1>5. CASE r.attachment # None
  <2>1. pc' = [pc EXCEPT ![w] = "unlink"] /\ req' = [req EXCEPT ![w] = r]
    BY <1>1, <1>5 DEF Wipe, Continue
  <2>2. r.attachment \in DOMAIN attachments /\ HeldByOnly(r.attachment, m)
    BY <1>1, <1>2, <1>5 DEF RequestSound
  <2>3. HeldByOnly(r.attachment, None)'
    BY <1>3, <1>5, <2>2 DEF HeldByOnly
  <2>4. RequestSound("unlink", r)'
    BY <1>2, <2>2, <2>3 DEF RequestSound
  <2>5. \A q \in Processes \ {w} :
          pc[q] = "message" /\ req[q].attachment # None => r.attachment # req[q].attachment
    BY <1>1, <1>2 DEF PendingApart, Wipe
  <2> QED
    BY <1>2, <1>3, <2>1, <2>4, <2>5, StepLose DEF Steps
<1> QED
  BY <1>4, <1>5

\* The file of an attachment that no message has and no request will give to one
\* goes: what another row has with the same path still has that one as its twin.
LEMMA NextUnlink ==
  ASSUME FilesInv, NEW w \in Workers, Unlink(w)
  PROVE  FilesInv'
<1> USE DEF FilesInv
<1>1. PICK a : a = req[w].attachment
  OBVIOUS
<1>2. /\ w \in Processes /\ pc[w] = "unlink"
      /\ a \in DOMAIN attachments /\ HeldByOnly(a, None)
      /\ UNCHANGED <<now, messages, attachments>> /\ disk' = disk \ {attachments[a]}
      /\ pc' = [pc EXCEPT ![w] = "idle"] /\ req' = [req EXCEPT ![w] = None]
  BY <1>1 DEF Processes, RequestsSound, RequestSound, Unlink, Finish, Continue
<1>3. \A b \in DOMAIN attachments : b # a /\ Safe(b) => Safe(b)'
  BY <1>2 DEF Safe
<1>4. Types'
  BY <1>2 DEF Types, Steps
<1>5. RowsSound'
  <2>1. \A m \in DOMAIN messages : m # None
    BY NoneApart DEF Types
  <2> QED
    BY <1>2, <1>3, <2>1 DEF RowsSound, HeldByOnly
<1>6. pc'[w] = "idle" /\ \A q \in Processes \ {w} : pc'[q] = pc[q] /\ req'[q] = req[q]
  BY <1>2 DEF Types
<1>7. RequestsSound'
  <2>1. RequestSound(pc[w], req[w])'
    BY <1>6 DEF RequestSound
  <2>2. ASSUME NEW q \in Processes \ {w} PROVE RequestSound(pc[q], req[q])'
    <3>1. pc[q] = "message" /\ req[q].attachment # None => req[q].attachment # a
      BY <1>1, <1>2 DEF PendingApart
    <3>2. pc[q] = "attachment" =>
            req[q].post.file \in disk' \/ \E b \in DOMAIN attachments : attachments[b] = req[q].post.file
      BY <1>2 DEF RequestsSound, RequestSound
    <3> QED
      BY <1>2, <1>3, <1>6, <3>1, <3>2 DEF RequestsSound, RequestSound, HeldByOnly
  <2> QED
    BY <2>1, <2>2 DEF RequestsSound
<1>8. PendingApart'
  BY <1>6 DEF PendingApart
<1> QED
  BY <1>4, <1>5, <1>7, <1>8

LEMMA NextAskMessages ==
  ASSUME FilesInv, NEW w \in Workers, NEW u, NEW c, AskMessages(w, u, c)
  PROVE  FilesInv'
<1>1. PICK r : r = [ids |-> Unread(u, c)]
  OBVIOUS
<1>2. w \in Processes /\ now' \in Nat /\ UNCHANGED <<messages, attachments, disk>>
      /\ pc' = [pc EXCEPT ![w] = "mark"] /\ req' = [req EXCEPT ![w] = r]
  BY <1>1 DEF Processes, AskMessages, Begin, tables, FilesInv, Types
<1>3. RequestSound("mark", r)'
  BY DEF RequestSound
<1> QED
  BY <1>2, <1>3, StepAside DEF Steps

LEMMA NextMarkRead ==
  ASSUME FilesInv, NEW w \in Workers, MarkRead(w)
  PROVE  FilesInv'
<1> USE DEF FilesInv
<1>1. /\ w \in Processes /\ UNCHANGED <<now, attachments, disk>>
      /\ pc' = [pc EXCEPT ![w] = "idle"] /\ req' = [req EXCEPT ![w] = None]
  BY DEF Processes, MarkRead, Finish, Continue
<1>2. messages' = [m \in DOMAIN messages |-> messages'[m]]
  BY DEF MarkRead
<1>3. \A m \in DOMAIN messages :
        /\ messages'[m] \in Message \cup {None}
        /\ \/ messages'[m] = None
           \/ messages[m] # None /\ messages'[m].attachment = messages[m].attachment
  BY ReadRow DEF MarkRead, Exists, Types
<1>4. messages' \in Seq(Message \cup {None}) /\ DOMAIN messages' = DOMAIN messages
  BY <1>2, <1>3, MapRows DEF Types
<1>5. RequestSound("idle", None)'
  BY DEF RequestSound
<1> QED
  BY <1>1, <1>3, <1>4, <1>5, StepLose DEF Steps

LEMMA NextReport ==
  ASSUME FilesInv, NEW w \in Workers, NEW u, NEW m, AskReport(w, u, m) \/ InsertReport(w)
  PROVE  FilesInv'
<1>1. CASE AskReport(w, u, m)
  <2>1. PICK r : r = [id |-> m]
    OBVIOUS
  <2>2. w \in Processes /\ now' \in Nat /\ UNCHANGED <<messages, attachments, disk>>
        /\ pc' = [pc EXCEPT ![w] = "report"] /\ req' = [req EXCEPT ![w] = r]
    BY <1>1, <2>1 DEF Processes, AskReport, Begin, tables, FilesInv, Types
  <2>3. RequestSound("report", r)'
    BY DEF RequestSound
  <2> QED
    BY <2>2, <2>3, StepAside DEF Steps
<1>2. CASE InsertReport(w)
  BY <1>2, GoIdle DEF InsertReport, Finish, Continue, Processes
<1> QED
  BY <1>1, <1>2

LEMMA NextCleanRetention ==
  ASSUME FilesInv, NEW a \in Runners, CleanRetention(a)
  PROVE  FilesInv'
<1> USE DEF FilesInv
<1>1. a \in Processes
  BY DEF Processes
<1>2. CASE ReadRetention(a)
  <2>1. PICK r : r = [cutoff |-> Cutoff]
    OBVIOUS
  <2>2. /\ now' \in Nat /\ UNCHANGED <<messages, attachments, disk>>
        /\ pc' = [pc EXCEPT ![a] = "delete"] /\ req' = [req EXCEPT ![a] = r]
    BY <1>2, <2>1 DEF ReadRetention, Continue, Types
  <2>3. RequestSound("delete", r)'
    BY DEF RequestSound
  <2> QED
    BY <1>1, <2>2, <2>3, StepAside DEF Steps
<1>3. CASE DeleteOld(a)
  <2>1. /\ UNCHANGED <<now, attachments, disk>>
        /\ pc' = [pc EXCEPT ![a] = "idle"] /\ req' = [req EXCEPT ![a] = None]
    BY <1>3 DEF DeleteOld, Finish, Continue
  <2>2. messages' = [m \in DOMAIN messages |-> messages'[m]]
    BY <1>3 DEF DeleteOld
  <2>3. \A m \in DOMAIN messages : messages'[m] \in {messages[m], None}
    BY <1>3 DEF DeleteOld
  <2>4. messages' \in Seq(Message \cup {None}) /\ DOMAIN messages' = DOMAIN messages
    BY <2>2, <2>3, MapRows DEF Types
  <2>5. RequestSound("idle", None)'
    BY DEF RequestSound
  <2> QED
    BY <1>1, <2>1, <2>3, <2>4, <2>5, StepLose DEF Steps
<1>4. CASE DeleteFails(a)
  BY <1>1, <1>4, GoIdle DEF DeleteFails, Finish, Continue
<1> QED
  BY <1>2, <1>3, <1>4 DEF CleanRetention

\* Every step of the system keeps the attachments in order.
LEMMA FilesStep == FilesInv /\ [Next]_vars => FilesInv'
<1> SUFFICES ASSUME FilesInv, [Next]_vars PROVE FilesInv'
  OBVIOUS
<1>1. CASE Tick
  <2>1. UNCHANGED <<messages, attachments, disk, pc, req>> /\ now' \in Nat
    BY <1>1 DEF Tick, tables, FilesInv, Types
  <2> QED
    BY <2>1 DEF FilesInv, Types, RowsSound, RequestsSound, RequestSound, PendingApart, HeldByOnly, Safe
<1>2. ASSUME NEW w \in Workers, NEW p \in Posts, AskSend(w, p) PROVE FilesInv'
  BY <1>2, NextSend
<1>3. ASSUME NEW w \in Workers,
             WriteFile(w) \/ InsertAttachment(w) \/ InsertMessage(w) \/ Wipe(w) \/ Unlink(w) \/ MarkRead(w)
      PROVE  FilesInv'
  BY <1>3, NextWriteFile, NextInsertAttachment, NextInsertMessage, NextWipe, NextUnlink, NextMarkRead
<1>4. ASSUME NEW w \in Workers, NEW u \in Users, NEW m \in DOMAIN messages, AskRecall(w, u, m)
      PROVE  FilesInv'
  BY <1>4, NextAskRecall
<1>5. ASSUME NEW w \in Workers, NEW u, NEW m, AskReport(w, u, m) \/ InsertReport(w) PROVE FilesInv'
  BY <1>5, NextReport
<1>6. ASSUME NEW w \in Workers, NEW u \in Users, NEW c \in Conversations, AskMessages(w, u, c)
      PROVE  FilesInv'
  BY <1>6, NextAskMessages
<1>7. ASSUME NEW w \in Workers, NEW value \in Retentions, UpdateConfig(w, value) PROVE FilesInv'
  <2>1. UNCHANGED <<now, messages, attachments, disk, pc, req>>
    BY <1>7 DEF UpdateConfig
  <2> QED
    BY <2>1 DEF FilesInv, Types, RowsSound, RequestsSound, RequestSound, PendingApart, HeldByOnly, Safe
<1>8. ASSUME NEW a \in Runners, CleanRetention(a) PROVE FilesInv'
  BY <1>8, NextCleanRetention
<1>9. ASSUME NEW p \in Processes, Crash(p) PROVE FilesInv'
  BY <1>9, GoIdle DEF Crash, tables
<1>10. CASE UNCHANGED vars
  <2>1. UNCHANGED <<now, messages, attachments, disk, pc, req>>
    BY <1>10 DEF vars, tables
  <2> QED
    BY <2>1 DEF FilesInv, Types, RowsSound, RequestsSound, RequestSound, PendingApart, HeldByOnly, Safe
<1> QED
  BY <1>1, <1>2, <1>3, <1>4, <1>5, <1>6, <1>7, <1>8, <1>9, <1>10 DEF Next

\* Only a twin loses a file: a live message whose attachment is not on the disk
\* has another attachment row with its path, whatever number of processes send,
\* recall, read, report and clean up, and wherever they are cut off.
THEOREM FilesLostOnlyToTwins == Spec => []LostOnlyToTwin
<1>1. FilesInv => LostOnlyToTwin
  BY DEF FilesInv, RowsSound, Safe, LostOnlyToTwin, Live, Exists, HasFile
<1> QED
  BY <1>1, FilesInit, FilesStep, PTL DEF Spec

-----------------------------------------------------------------------------
(* Marks, with one API process *)

OneWorker == \A v, w \in Workers : v = w

\* What a list is about to mark is still there unless the job deleted it, and
\* was not recalled: the one process that could recall it is busy.
MarkFresh ==
  \A w \in Workers : pc[w] = "mark" =>
    /\ req[w].ids \subseteq DOMAIN messages
    /\ \A m \in req[w].ids : Exists(m) => ~messages[m].recalled

ReadInv == FilesInv /\ MarkFresh

\* A process p that goes to another step, and rows that only go or are added.
LEMMA MarksKept ==
  ASSUME ReadInv, NEW p \in Processes, NEW s, s # "mark", NEW r,
         pc' = [pc EXCEPT ![p] = s], req' = [req EXCEPT ![p] = r],
         DOMAIN messages \subseteq DOMAIN messages',
         \A m \in DOMAIN messages : messages'[m] \in {messages[m], None}
  PROVE  MarkFresh'
<1>1. pc'[p] = s /\ \A q \in Processes \ {p} : pc'[q] = pc[q] /\ req'[q] = req[q]
  BY DEF ReadInv, FilesInv, Types
<1> QED
  BY <1>1 DEF ReadInv, MarkFresh, Exists, Processes

\* The one API process goes to another step, whatever the rows become.
LEMMA MarkGone ==
  ASSUME OneWorker, ReadInv, NEW w \in Workers, NEW s, s # "mark", pc' = [pc EXCEPT ![w] = s]
  PROVE  MarkFresh'
<1>1. pc'[w] = s
  BY DEF ReadInv, FilesInv, Types, Processes
<1> QED
  BY <1>1 DEF OneWorker, MarkFresh

LEMMA MarkFreshStep ==
  ASSUME OneWorker, ReadInv, [Next]_vars
  PROVE  MarkFresh'
<1>1. CASE Tick \/ UNCHANGED vars
  BY <1>1 DEF Tick, vars, tables, ReadInv, MarkFresh, Exists
<1>2. ASSUME NEW w \in Workers, NEW p \in Posts, AskSend(w, p) PROVE MarkFresh'
  BY <1>2, MarkGone DEF AskSend, Begin
<1>3. ASSUME NEW w \in Workers,
             WriteFile(w) \/ InsertAttachment(w) \/ InsertMessage(w) \/ Unlink(w) \/ MarkRead(w) \/ InsertReport(w)
      PROVE  MarkFresh'
  BY <1>3, MarkGone
     DEF WriteFile, InsertAttachment, InsertMessage, Unlink, MarkRead, InsertReport, Finish, Continue
<1>4. ASSUME NEW w \in Workers, Wipe(w) PROVE MarkFresh'
  BY <1>4, MarkGone DEF Wipe, Finish, Continue
<1>5. ASSUME NEW w \in Workers, NEW u, NEW m, AskRecall(w, u, m) \/ AskReport(w, u, m) PROVE MarkFresh'
  BY <1>5, MarkGone DEF AskRecall, AskReport, Begin
<1>6. ASSUME NEW w \in Workers, NEW u, NEW c, AskMessages(w, u, c) PROVE MarkFresh'
  <2>1. pc'[w] = "mark" /\ req'[w] = [ids |-> Unread(u, c)] /\ messages' = messages
    BY <1>6 DEF AskMessages, Begin, tables, ReadInv, FilesInv, Types, Processes
  <2>2. \A m \in Unread(u, c) : m \in DOMAIN messages /\ ~messages[m].recalled
    BY DEF Unread
  <2>3. req'[w].ids = Unread(u, c)
    BY <2>1
  <2> QED
    BY <2>1, <2>2, <2>3 DEF OneWorker, MarkFresh, Exists
<1>7. ASSUME NEW w \in Workers, NEW value, UpdateConfig(w, value) PROVE MarkFresh'
  BY <1>7 DEF UpdateConfig, ReadInv, MarkFresh, Exists
<1>8. ASSUME NEW a \in Runners, CleanRetention(a) PROVE MarkFresh'
  <2>1. PICK r : r = [cutoff |-> Cutoff]
    OBVIOUS
  <2>2. /\ DOMAIN messages \subseteq DOMAIN messages'
        /\ \A m \in DOMAIN messages : messages'[m] \in {messages[m], None}
    BY <1>8 DEF CleanRetention, ReadRetention, DeleteOld, DeleteFails
  <2>3. CASE ReadRetention(a)
    BY <2>1, <2>2, <2>3, MarksKept DEF ReadRetention, Continue, Processes
  <2>4. CASE DeleteOld(a) \/ DeleteFails(a)
    BY <2>2, <2>4, MarksKept DEF DeleteOld, DeleteFails, Finish, Continue, Processes
  <2> QED
    BY <1>8, <2>3, <2>4 DEF CleanRetention
<1>9. ASSUME NEW p \in Processes, Crash(p) PROVE MarkFresh'
  BY <1>9, MarksKept DEF Crash, tables
<1> QED
  BY <1>1, <1>2, <1>3, <1>4, <1>5, <1>6, <1>7, <1>8, <1>9 DEF Next

LEMMA ReadStep ==
  ASSUME ReadInv, [Next]_vars
  PROVE  \A m \in DOMAIN messages :
           Live(m)' \/ ~Exists(m)' \/ messages'[m].read = messages[m].read
<1> SUFFICES ASSUME NEW m \in DOMAIN messages, Exists(m)'
             PROVE  Live(m)' \/ messages'[m].read = messages[m].read
  OBVIOUS
<1>1. CASE messages' = messages
  BY <1>1
<1>2. ASSUME NEW w \in Workers, InsertMessage(w) PROVE messages'[m] = messages[m]
  BY <1>2 DEF InsertMessage, ReadInv, FilesInv, Types
<1>3. ASSUME NEW w \in Workers, Wipe(w) PROVE messages'[m].read = messages[m].read
  <2>1. messages[m] # None => messages[m] \in Message
    BY DEF ReadInv, FilesInv, Types
  <2>2. \/ messages'[m] = messages[m]
        \/ messages[m] # None /\ messages'[m] = Wiped(messages[m])
    BY <1>3 DEF Wipe, Exists, ReadInv, FilesInv, Types
  <2> QED
    BY <2>1, <2>2, WipedRow
<1>4. ASSUME NEW w \in Workers, MarkRead(w) PROVE Live(m)' \/ messages'[m].read = messages[m].read
  <2>1. CASE m \in req[w].ids /\ Exists(m)
    <3>1. messages[m] \in Message
      BY <2>1 DEF ReadInv, FilesInv, Types, Exists
    <3>2. ~messages[m].recalled
      BY <1>4, <2>1 DEF ReadInv, MarkFresh, MarkRead
    <3>3. messages'[m] = [messages[m] EXCEPT !.read = TRUE]
      BY <1>4, <2>1 DEF MarkRead
    <3> QED
      BY <3>1, <3>2, <3>3, ReadRow DEF Live
  <2>2. CASE ~(m \in req[w].ids /\ Exists(m))
    BY <1>4, <2>2 DEF MarkRead
  <2> QED
    BY <2>1, <2>2
<1>5. ASSUME NEW a \in Runners, CleanRetention(a) PROVE messages'[m] = messages[m]
  BY <1>5 DEF CleanRetention, ReadRetention, DeleteOld, DeleteFails, Exists
<1>6. Next => \/ messages' = messages
              \/ \E w \in Workers : InsertMessage(w) \/ Wipe(w) \/ MarkRead(w)
              \/ \E a \in Runners : CleanRetention(a)
  BY DEF Next, Tick, AskSend, AskRecall, AskReport, AskMessages, Begin, tables,
         WriteFile, InsertAttachment, Unlink, InsertReport, UpdateConfig, Crash
<1> QED
  BY <1>1, <1>2, <1>3, <1>4, <1>5, <1>6 DEF vars, tables

\* With one API process no message gets its read mark after it was recalled,
\* even while the jobs delete rows between a list and its UPDATE.
THEOREM NoMarkAfterRecall ==
  ASSUME OneWorker
  PROVE  Spec => NoReadAfterRecall
<1>1. Init => ReadInv
  BY FilesInit DEF ReadInv, Init, MarkFresh, Processes
<1>2. ReadInv /\ [Next]_vars => ReadInv'
  BY FilesStep, MarkFreshStep DEF ReadInv
<1>3. ReadInv /\ [Next]_vars =>
        [\A m \in DOMAIN messages : Live(m)' \/ ~Exists(m)' \/ messages'[m].read = messages[m].read]_vars
  BY ReadStep
<1> QED
  BY <1>1, <1>2, <1>3, PTL DEF Spec, NoReadAfterRecall
=============================================================================
