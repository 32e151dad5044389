---------------------------- MODULE ProcessConfig ----------------------------
(***************************************************************************)
(* How a process finds its place in process.xml: the ids of processes and  *)
(* ProcessConfig::load.  A configuration lists the names of the types and, *)
(* node by node, the processes with the endpoint each listens at (none) or *)
(* the processes it connects to.  Numbers keep the widths they have in the *)
(* code: a byte has Byte values, an unsigned integer has Word.             *)
(***************************************************************************)
EXTENDS Integers, Sequences, FiniteSets

CONSTANTS
  Byte, Word,
  BitsOr(_, _),        \* the bitwise or of two unsigned integers
  AllTypes,        \* allType, a sequence of names
  Nodes,           \* the process nodes a configuration may hold
  NodesMax,        \* how many it holds
  NoListen         \* the empty listen attribute

ASSUME ConfigAssumption ==
  /\ Byte \in Nat \ {0} /\ Byte % 2 = 0 /\ Word \in Nat /\ Word % Byte = 0 /\ Byte * (Byte + 1) <= Word
  /\ AllTypes \in Seq({AllTypes[i] : i \in DOMAIN AllTypes})

\* What the bitwise or is of a shifted type and a number that has no bits, or
\* all bits, above its byte.
ASSUME OrAssumption ==
  \A t \in {t \in 0 .. Word : t * Byte < Word} :
    /\ \A n \in 0 .. Byte - 1 : BitsOr(t * Byte, n) = t * Byte + n
    /\ \A n \in Word - Byte .. Word - 1 : BitsOr(t * Byte, n) = n

VARIABLES
  nodes,           \* a sequence of records [name, num, private, listen, connectTo]
  self,            \* the name and number the process was started with
  node,            \* how many nodes have been read
  privateListenEps,\* m_processIdPrivateListenEps, by the value of the id
  processId,       \* m_processId
  thisNode,        \* the node of this process, 0 for none
  connect,         \* m_processInfo.privateNet.connect
  load             \* "loading", "loaded", or "failed" by an exception

configVars == <<nodes, self, node, privateListenEps, processId, thisNode, connect, load>>

---------------------------------------------------------------------------
\* Ids.

\* s_name2Type; the type 0 is invalid.  A name listed twice has its last type.
StringToType(name) ==
  LET at == {i \in DOMAIN AllTypes : AllTypes[i] = name}
  IN IF at = {} THEN 0 ELSE CHOOSE i \in at : \A j \in at : j <= i

\* Variant: an id made of a name has a number one bit shorter.
ShortId(name, num) ==
  [type |-> StringToType(name), num |-> num % (Byte \div 2)]

\* ProcessId(typeStr, int8_t num): the number goes through a signed byte.
NamedId(name, num) ==
  LET low == num % Byte
      extended == IF low >= Byte \div 2 THEN Word - Byte + low ELSE low
  IN IF StringToType(name) = 0 THEN [type |-> 0, num |-> 0]
     ELSE [type |-> StringToType(name), num |-> extended]

ValueOf(id) == BitsOr((id.type * Byte) % Word, id.num)

---------------------------------------------------------------------------
\* load

ConfigInit ==
  /\ nodes \in UNION {[1 .. n -> Nodes] : n \in 1 .. NodesMax}
  /\ \E i \in DOMAIN nodes : self = [name |-> nodes[i].name, num |-> nodes[i].num]
  /\ node = 0 /\ privateListenEps = {} /\ processId = [type |-> 0, num |-> 0]
  /\ thisNode = 0 /\ connect = {} /\ load = "loading"

Fail == load' = "failed" /\ UNCHANGED <<nodes, self, node, privateListenEps, processId,
                                        thisNode, connect>>

\* One node: where it listens, and whether it is this process.
ReadNode ==
  /\ load = "loading" /\ node < Len(nodes)
  /\ LET n == nodes[node + 1]
         key == ValueOf(NamedId(n.name, n.num))
     IN IF StringToType(n.name) = 0 \/ ~ n.private THEN Fail
        ELSE /\ privateListenEps' =
                  IF n.listen = NoListen THEN privateListenEps
                  ELSE {e \in privateListenEps : e.key # key} \cup {[key |-> key, ep |-> n.listen]}
             /\ IF n.name = self.name /\ n.num = self.num
                THEN /\ processId' = [type |-> StringToType(n.name), num |-> self.num]
                     /\ thisNode' = node + 1
                ELSE UNCHANGED <<processId, thisNode>>
             /\ node' = node + 1
             /\ UNCHANGED <<nodes, self, connect, load>>

\* parseProcessList: items are "type:nums" or "zone:type:nums"; an unknown type
\* of the first form is an error, of the second it is passed over.
ListFails(items) ==
  \E i \in DOMAIN items : \/ items[i].parts \notin {2, 3}
                          \/ items[i].parts = 2 /\ StringToType(items[i].name) = 0

Listed(items) ==
  UNION {{[type |-> StringToType(items[i].name), num |-> num] : num \in items[i].nums} :
           i \in {i \in DOMAIN items : StringToType(items[i].name) # 0}}

\* parsePrivateEndpoint
Connects ==
  /\ load = "loading" /\ node = Len(nodes)
  /\ IF thisNode = 0 THEN Fail
     ELSE LET items == nodes[thisNode].connectTo
              keys == {ValueOf(id) : id \in Listed(items)}
          IN IF ListFails(items) \/ keys \notin SUBSET {e.key : e \in privateListenEps} THEN Fail
             ELSE /\ connect' = {e.ep : e \in {e \in privateListenEps : e.key \in keys}}
                  /\ load' = "loaded"
                  /\ UNCHANGED <<nodes, self, node, privateListenEps, processId, thisNode>>

ConfigNext == ReadNode \/ Connects

ConfigSpec == ConfigInit /\ [][ConfigNext]_configVars

---------------------------------------------------------------------------
(* Correctness. *)

\* The nodes a process is told to connect to: by their names and numbers.
Named(n) ==
  {i \in DOMAIN nodes : \E k \in DOMAIN n.connectTo :
     n.connectTo[k].name = nodes[i].name /\ nodes[i].num \in n.connectTo[k].nums}

Sound == \A i \in DOMAIN nodes :
  /\ nodes[i].private /\ nodes[i].name \in {AllTypes[k] : k \in DOMAIN AllTypes}
  /\ \A j \in DOMAIN nodes : nodes[i].name = nodes[j].name /\ nodes[i].num = nodes[j].num => i = j

\* A process connects to the processes its configuration names and to no
\* others: to all of them, or the configuration is refused.
ConnectsAsListed ==
  LET named == Named(nodes[thisNode])
  IN load = "loaded" /\ Sound => connect = {nodes[i].listen : i \in named} \ {NoListen}

\* process_id.h: 「ProcessNum，实际仅使用低8bits」 (of a number only the low 8
\* bits are used): every number of eight bits can be named in connectTo.
LowBitsSuffice ==
  load = "failed" /\ Sound =>
    \E k \in DOMAIN nodes[thisNode].connectTo : \E num \in nodes[thisNode].connectTo[k].nums :
      ~ \E i \in DOMAIN nodes : /\ nodes[i].name = nodes[thisNode].connectTo[k].name
                                /\ nodes[i].num = num /\ nodes[i].listen # NoListen
=============================================================================
