# Konstruado: the specification

Konstruado lets a principal (*mandante*) and a contractor (*contratista*) agree on
a job (*obra*), split it in stages (*partidas*), lock the money of one stage at a
time in a Monero box both control, and pay it when they agree on a percentage.
There is no server: every node keeps whole copies of the deals, copies travel by
gossip and are merged, and only a transaction seen on the chain may lock or pay a
stage. This directory holds a TLA+ model of that program, its model checking with
TLC and its proofs with TLAPS. Names are those of the source.

Contents: 1 the system, 2 the modules, 3 the runs, 4 fairness, 5 what does not
hold, 6 the proofs, 7 what is not modelled, and the plan.

## 1. The system

| component | where (`src/crates/...`) | state | operations | module |
|---|---|---|---|---|
| stage | `konstruado-core/src/acuerdo.rs` (`Partida`), `partida.rs` | state, percentage on the table, turn, notes, number of the lock, receipt, price, ids | `fusionar` | `Partida` |
| deal | `acuerdo.rs` (`Obra`) | state, stages, bond, counter-offer, extra and closure with a number each | counter-offer, lock, agreement, title, extra, closure, `fusionar` | `Obra` |
| replication of a deal | `konstruado-net/src/dht.rs`, both programs | a copy per node, the copy a screen shows | `publicar_obra`, `gossip`, `merge_store` | `Trato` |
| box (*caja*, motor) and the deal | `konstruado-motor/src/caja.rs` | fundings and payments, what the chain showed | `pedir_*`, `tick`, `aplicar_hechos_monero` | `Trato` |
| funding of a stage | `caja.rs`, `xmr-joint/src/fund.rs` | an entry per stage, one background job, a file with what is awaited | `fund-*` messages, notices, abort, start again | `Fondeo` |
| payment of a stage | `caja.rs`, `xmr-joint/src/spend.rs` | the same, and a session of signature | `spend-*` messages, retries | `Gasto` |
| key generation | `xmr-joint/src/dkg.rs`, `caja.rs` | a run in memory, a share on the disk | commit, share, view, repetition | `Dkg` |
| sessions and mailboxes | `dht.rs` | live sessions, routes, mailboxes, the tray of the box | greet, relay, dial, hand over | `Red` |
| notice board (*tablero*) | `acuerdo.rs` (`Oferta`), `retiro.rs`, `dht.rs` | offers, withdrawals, the deals made of them | publish, withdraw, answer, counter, confirm, reject | `Tablero` |
| ledgers | `caja.rs`, `xmr-joint/src/chain.rs` | outputs listed, spent, the ends of what was looked at | refresh, older blocks, prune, send | `Libro` |
| backup | `konstruado-motor/src/respaldo.rs`, `persist.rs` | the files of the data directory | export, prepare, apply at the start | `Respaldo` |
| room over Tor | `konstruado-net/src/tor.rs`, `dht.rs` | what tor and Orbot are known to do, the role | open, drop, dial the room | `Sala` |
| quotation | `konstruado-motor/src/cotizacion.rs` | last price and its age, the permission to ask without Tor | ask in the background, by a button, type by hand | `Cotizacion` |
| amounts | `precio.rs`, `partida.rs`, `spend.rs` | none | split of the pot, dollars to piconero | `Reparto` |
| desktop, phone | `konstruado/src/main.rs`, `konstruado-ffi/src/lib.rs` | the copies painted on the screen | buttons; a loop once a second | in the modules above |
| transport, cryptography, Android, languages | `noise`, `xmr-joint`, `android/`, `i18n.rs` | | | section 7 |

How they interact. A button or a step of the loop changes a deal and hands the whole
copy to the node, which announces it; every node merges what it hears. The box reads
the copies of deals each tick, opens fundings and payments for stages in the right
state, talks to the other box by messages the node carries (`Red`), builds a
transaction with it (`Fondeo`, `Gasto`), and looks for it on the chain; what it saw
becomes an operation on the deal (`Trato`). Money comes from the ledger (`Libro`)
and goes to the address both boxes computed (`Dkg`). All of it lives in files that a
backup may replace (`Respaldo`).

What is hard in it:

* **Two writers, no server.** Each operation starts from a copy that was read
  earlier, and writes a whole copy. The phone reads when the button is pressed; the
  desktop uses the copy painted up to a second before. A merge that arrived in
  between is overwritten. Correct behaviour rests on `Partida::fusionar` and
  `Obra::fusionar`: their ranks, sequence numbers and tie-breaks.
* **Old copies come back.** Any copy ever announced may arrive later, twice, or from
  a third node, which announces its own merges.
* **The chain is not in the deal.** Between the broadcast of a transaction and the
  copy that shows it, either side may cancel, propose again, counter-offer, cut the
  deal, crash, or have its box fail; the answer to a broadcast may be lost.
* **One-shot messages.** Most messages of the boxes are sent once. They may be lost
  with a session, pushed out of a full queue, or overtaken; `fund-tx` and `spend-tx`
  name the deal, not the stage.
* **Things done in the background.** Scans, rings, broadcasts, dials and requests of a
  price end after what they were asked for has changed.
* **Killed between two writes.** The state is saved once a second; a restoration is a
  series of renames.

PROJECT.json lists the 40 hazards, each at its line, with the properties about it.

## 2. The modules

* **`Partida`**: a stage as a record and `Partida::fusionar` as the source writes it:
  the pass of the sequence number (`PasoSeq`), then the pass for a copy further
  along (`PasoAvance`), or those for an equal one (`PasoIgual`) and the rest (`PasoResto`).
* **`Obra`**: a deal as a record, a pair `Puede-X` / `X` for each operation of `impl
  Obra` (the condition under which it returns `Ok`, the copy it leaves), and
  `FusionarObra`, a composition of the four passes of `Obra::fusionar`.
* **`Trato`**: the deal replicated. It composes the copies of every node, the copy
  each program read, the announced copies, the chain, and the work of both boxes.
* **`FirmaDeAmbos`**: the abstract specification of a transaction made by two boxes: it
  is published only when both signed it, each for an amount that person had agreed
  to for that stage, and no output is spent twice.
* **`Fondeo`**, **`Gasto`**: the sessions that `Trato` has as one step. Each implements
  `FirmaDeAmbos` (property `FirmanAmbos`, `INSTANCE ... WITH`), with the transactions
  of its own chain and its own history of amounts agreed to.
* **`Dkg`**, **`Red`**, **`Tablero`**, **`Respaldo`**, **`Libro`**: one component each.
* **`Sala`**, **`Cotizacion`**: the second extends the first, because the price is asked
  for over the SOCKS the first brings up; they are checked together, as
  `PrecioSpec`.
* **`Reparto`**: the arithmetic, as operators.
* **`MC*`**: instances for TLC. **`*Proofs`**: the theorems, one module per
  component: those about stages and deals are in `TratoProofs`, those of `Reparto` in
  `GastoProofs`, whose payments it splits, and those of `Cotizacion` in `RedProofs`, next
  to the sessions whose tor it asks through.

### `Trato`

| variable | in the code |
|---|---|
| `copia[n]` | the deal in the store of node `n` (`dht.rs`) |
| `vista[n]` | the copy the program of `n` acts on: the signal `obras` of the desktop, the local variable of `accion` on the phone |
| `anunciadas` | every copy ever stored: what is or was in flight or in a mailbox |
| `fondeos`, `pagos` | the transactions on the chain, with the price or the percentage they carry |
| `encierres[n]`, `gastos[n]` | the maps `fondeos` and `gastos` of the box of `n` |
| `ajenos`, `fallidas` | history, read by no action: the stages a box gave the transaction of another stage to (`tomar_txid`), the stages whose payment failed |

| actions | code |
|---|---|
| `AccionX` | a button: guard of `acciones_partida_con` or of the screen, the operation, `publicar_trato` |
| `PedirFondeo`, `PedirGasto`, `AbrirFondeo`, `AbrirGasto` | "Confirm and fund", "Accept and pay", and the other box opening its own entry |
| `Fondear`, `Gastar` | the principal closes and broadcasts |
| `Enterarse`, `TomarTxid` | `fund-tx`, `spend-tx` (`tomar_txid`) |
| `FallarGasto` | any failure of a payment, before or after the broadcast (`fallar`, `fallo_par`) |
| `VerFondeo`, `VerPago` | `Listo::Visto`, `hechos` and `aplicar_hechos_monero`: they share a tick |
| `Limpiar`, `Leer`, `Recibir` | `limpiar_resueltos`; the loop refreshes the screen; `merge_store` on an announced copy |

`Publicar` and `PublicarHecho` differ as a button of the desktop, after which the
screen still shows the old copy until the loop comes around, and the loop itself,
which has no `await` between applying a fact and refreshing the screen.

Abstractions: an `Option` is a value or its absence (0, `Nadie`, `""`); a note keeps
author and percentage; a price is the piconero it fixes; the id of a transaction is a
boolean on the stage, and the chain says what it carried. Words, seals, keys, names
and timestamps are left out: no guard of a modelled step reads them. `Init` is one
contractor's acceptance, already with everyone (`Tablero` has what precedes it).
`trato_alineado` / `exigir_sesion` are taken as true: the model allows more. A funding
has no failure path here; `Fondeo` has it. `MaxSeq`, `MaxNotas`, `MaxExtra`, `MaxCierre`
bound the numbers below which something is proposed.

### `Fondeo` and `Gasto`

`fondeo[n][e]` and `gasto[n]` are the entries of the box (`struct Fondeo`, `struct
Gasto`), their flags the set `marcas`; `red[n]` the messages on their way to `n`;
`ocupado` the one background job; `espera` the file `guardar_espera` writes before a
broadcast; `libro`, `ocultas`, `mirado` the wallet a funding draws on. One step of a
tick for one entry is one action, `Tomar*` is one message of `ingerir`, `Armar*`,
`Publicado` and their like the end of a job (`tomar_listo`). What may come of a
broadcast (`Difusiones`): accepted, refused, the node not reached, accepted with the
answer lost. `Perder`, an out-of-order `Llega`, `Caer` (restart: only `espera` is
left, `cargar_esperas`), `Tardar` (out of the blocks `ver_txid` looks back) are the
faults; `fallas`, `caidas` and `vueltas` count them and the times a person goes back.

An amount is named by the number of the proposal it comes from (funding), or is the
percentage (payment). Notes that are rebuilt in the same tick are left out;
`partida-salida` is received as `fund-abort` is; a false `enviar_caja` is a loss. In
`Gasto` wallet, box and addresses are there from the start, `SpendSession::open` does not
fail, and the arithmetic is that of `Reparto`.

### `Dkg`, `Red`

A run of a person is named by its number and an account by the two runs that made it:
they fix its keys. `Llega` puts a message in `buzon` (the first of each kind),
`Avanza` is the tick that consumes it in its phase, `Repite` asks for the view again.
Faults: `Perder`, `Adelantar`, `Reiniciar` (with or without the files), `Restaurar`
from a backup. One pending request stands for its repetitions.

`Red` is one direction of one pair through one room: sessions by number, what is on
its way up and down each, the live one as each end sees it, the mailbox of each node
at the room, the tray of the box. `Registrar` makes a session live and drains the
mailbox; `Romper` breaks it, and each end notices later (`NotaSala`, `NotaPrograma`);
`Renacer` is a restart with a new node id; `Enviar` sends down a session or dials
(`Marcado`, `NoMarcado`). An older open session stays unregistered, a message whose
dial failed stays in the sender's mailbox, and order is not promised: as in the code.
`sabe` and `conoce` are `personas` at the room and at each program: whoever registers a session announces
its own node and then that of everyone it knows (`Presentes`, `Conocidos`), which may be a node
that is gone.

### `Tablero`, `Respaldo`

`Tablero`: `store[n]`, `disco[n]` and three lists that travel apart (`OyeOfertas`,
`OyeRetiradas`, `OyeObras`); `Guarda` is the save of each second and `Caida` comes back with
it. Withdrawals are honest. Nodes outside `Caen` do not save. A list is compared and
merged in one step.

`Respaldo`: the data directory entry by entry (`estado.json`, `xmr/`,
`ultimo-respaldo.json`; `daemon.url` moves like `xmr/`, a seed counts as one more share),
`restaurar.tmp`, `restaurar.listo` and the `previo-*` directories. Each rename of
`aplicar_pendiente` is an action and `Corta` may come between any two; the loop goes
on saving (`Guarda`) and making boxes (`NuevaCaja`) while a restoration is prepared. Each value
carries the restoration it came with, which is how a mix is told. Encryption is left out.

### `Libro`, `Sala`, `Cotizacion`, `Reparto`

`Libro`: the wallet's ledger and one box's, the newest block heard of, one job at a
time (`ocupado`) and its result (`celda`), taken by the next tick. `Lanza*` start a
job, `Corre` / `CorreMal` end it, `Toma*` are `tomar_listo`. Outputs are model values
at fixed heights; amounts, fees and change are left out, and so is a failing write
of `guardar_libro`. Pauses and timers are nondeterminism and fairness. A scan ends with a query for the
newest block; when only that one fails, the end of the chunk stands in for it, and in a pruning what was
known when it began (`TipSupuesto`), so the known tip may go back. The history `oido` has the newest block heard of.

`Sala`: one node. `tarea` is where `unirse_tor` waits, `llamadas` where each task of
`mantener` does, `snap` the `Snap` of `tor.rs`, `tardia` an answer the control port gives
after its command timed out. Roles and Orbot change at any time. Consecutive sleeps are one, `probar_orbot`
is one step, a restart is the initial state. `Cotizacion`: one price, by its age
(under 10 minutes, under 30, older), and a request for each caller; which of the
sources answers first is left out.

`Reparto`: the number of stages, a percentage of a capital, dollars to piconero, the split of
the pot with the fee and the test the other side makes of it. Products are taken
modulo `U64`, casts modulo `U32`, as a release build does.

## 3. The runs

All runs pass but `Corte`, whose violation is what the code does against what `HELP.md` says. They stop when a
bound is reached wherever deadlock is not checked; in
the runs of `Trato`, where it is, `Limpiar`, `Leer` and `Recibir` are always possible.

| run | bounds | question | distinct states |
|---|---|---|---|
| `Pago` | one stage, in dollars, two prices, two percentages, `MaxNotas = 3`, a third node | crossed proposals settle on the price that is paid; one receipt, of the percentage that was split, coherent with its thread; merging commutes; a funding the box of who confirms knows ends up in both copies; copies converge (`SpecViva`) | 25 713 |
| `Escritorio` | both on the desktop, both boxes may fail, `MaxSeq = 2` (propose, cancel) | stale screens and failures forge no payment and take back no agreement | 150 048 |
| `Acuerdo` | both bonds (one or two stages), an extra, a title, a cut | amounts add up in every copy; who cuts alone does it before any funding | 51 436 |
| `Corte` | one stage in piconero, `MaxSeq = 2` (propose, cancel), a cut | `FondosConsentidos`: is money in the box only left by both? No: violated after nine states | |
| `Fondeo` | one stage, two outputs each (one found later), one fault or change of mind, two proposals | one published funding unless a person goes back, never forgotten, honest wallets, `FirmaDeAmbos`, it ends | 231 490 |
| `Gasto` | two percentages, one counter-offer, one fault or change of mind, two proposals, four sessions | the payment is not forgotten, the receipt is what was split, `FirmaDeAmbos`, it never hangs in silence; and the arithmetic on small amounts | 284 646 |
| `Dkg` | three faults | both get the same address; both end | 31 739 |
| `Red` | two messages, three sessions, one fault, queues of one | a message is in one place until it is lost; an old end does not drop the new session; what is not lost arrives | 366 640 |
| `Respaldo` | two boxes, two backups, two restorations, two faults | nothing lost, nothing mixed, an honest reminder, it ends | 296 792 |
| `Tablero` | two offers, one contractor, a list of one withdrawal, two crashes | a withdrawal stays, the same deal, consented terms | 98 774 |
| `Libro` | two outputs of each, blocks 2 to 4, steps of 2, one request, one foreign spend, two faults | no hole, no spent output back, an honest "empty" up to the known tip, the right balance | 184 288 |
| `Precio` | two dialing tasks, one bad answer | no request without Tor unless allowed; it keeps asking; the room opens; Orbot is not blamed | 192 536 |

Why the bounds are enough. A merge works stage by stage, so one stage is enough for what is about
one stage, and `Acuerdo` has two, since the terms couple them. `MaxSeq` 1 is a proposal by each,
crossed or not; 2 adds a cancel. `Pago` and `Acuerdo` have `MaxSeq = 1` and boxes that do not fail: what their
properties say ends with a cancel (`FondeoCuadra`, `Conmuta`, `CorteConsentido`, `EncierreTermina`, `Convergen`) or, in
a stage, with a failed payment (`GastoCuadra`), so these two bounds cut away nothing they speak of; `PagoAcordado` and
`ReciboCoherente` are proved with failures and any number of locks. The cancel itself is in `Escritorio` and
`Corte`. A funding is given to another stage only in a deal of
two, which `Acuerdo` has. `Pago` is on phones: on the desktop a stale screen may write the same turn again for
ever. Queues are of one so that their limit is met, and the 512
withdrawals are one for the same reason. One fault in `Fondeo` and `Gasto` may fall at
any point of a session of a dozen steps, and the properties are about recovering from one; a second
proposal is what a retry makes. Two cuts in `Respaldo` let the restart after the first be cut too. In `Libro` a step
is smaller than the chain, outputs lie before the first look, within it, and in blocks to
come. `IdMenor = Contratista`; the other choice only swaps who wins a crossed proposal. In
`Acuerdo` the constraint `UnaCosaPorVez` leaves out the states where both the terms and the titles or the
closure moved: they are too many.

Where a property says "unless", it names what the code cannot promise:
`FondeoCuadra`, `Conmuta`, `CorteConsentido`, `EncierreTermina` and `Convergen` until a proposal is cancelled; `FondeoCuadra`,
`CorteConsentido` and `GastoCuadra` until a box is given the transaction of another stage, `PagadaConGasto` and
`GastoCuadra` for the stages this did not happen to; `GastoCuadra` for the stages none of whose payments failed;
`FaltaDeVerdad` up to the tip known, the newest heard of until a query fails;
`FirmanAmbos` of `Gasto` asks for consented percentages only until a program restarts, and
`ReciboCuadra` also until a person goes back, since `spend-pedir` carries no percentage;
`FondeoUnico` and `FondeoNoSeOlvida` until a person goes back, and the contractor's part of
`LibroHonesto` with one fault at most;
`MismaCaja` until accounts are lost twice; `UnoConsintio` and `MismoTrato` with one contractor for the
offer; `RetiroQueda` while the list has room; `CajaTermina`, `FondeoTermina` and
`PagoNoSeCuelga` when nothing is lost. Section 5 says what happens otherwise.

The mutants in PROJECT.json are the bugs each property would catch; they stand beside
the definition they change, marked `Mutant`.

## 4. Fairness

What a person does, what fails, and what is lost or overtaken is never fair.

* `Trato`. `Gossip`: a node announces its copy every few seconds to every peer (`EMPUJE`,
  `gossip`); weak fairness on the merge of the other's *current* copy only. `Bucle`: the loops
  call `tick` once a second, so a transaction a box knows is looked for until it is
  seen. Nothing is assumed of `fund-tx` and `spend-tx`, which are sent once: `EncierreTermina` begins where the
  box of who must confirm knows the transaction.
* `Fondeo`, `Gasto`. Weak fairness on the steps of a tick, on the first message on its way
  (a sent message that is not lost arrives), on the end of a job (each RPC has a
  timeout), on the merge of copies, and in `Fondeo` on the scan.
* `Dkg`. `Llega`, `Avanza` (the tick) and `Repite` (asking for the view is on a timer).
* `Red`. The reading tasks of each session, the end of a dial, the tick of the box.
  Opening sessions is not fair; `Entrega` supposes one that stays (`Alcanzable`).
* `Tablero`. Gossip of each list between each pair, and the save of each second.
* `Respaldo`. Whoever starts the program lets it start; a preparation ends; the
  program restarts itself after it.
* `Libro`. Weak fairness on the running job and on taking its result; strong fairness on
  each launch, since jobs exclude one another and the timers (60 s for the tip, 20 s for
  pruning) leave room in between. A job answers unless a fault, which is bounded, hits it.
* `Sala`, `Cotizacion`. Every await has a timeout except a session; the loop turns every
  second and waits thirty after a try (`ULTIMO_INTENTO`).

## 5. What does not hold

Met while modelling; each can be had from a run by the change named. The second has a run of its own, `Corte`.

On the deal:

* A copy cancelled and proposed more often takes a locked stage back (`acuerdo.rs:194`; `CONTEXTO.md:46`
  says "`fusionar` en obras **no retrocede** estados"). `Pago` with `MaxSeq = 3`; with two
  prices the new proposal is locked with the old funding: `FondeoCuadra` speaks of the time before a cancel.
* Between the broadcast of a funding and its notice the contractor may cancel, and then cut
  the deal alone with both sides' money in the box (`acuerdo.rs:869`; `HELP.md:37` "If funds are
  at risk, closing needs both"). Run `Corte`: `FondosConsentidos` is violated by propose, read, ask for
  the funding, open, broadcast, cancel, cut. `CorteConsentido` says that without a cancel nobody does.
* A failed look-up of a payment already broadcast opens the counter-offer again
  (`caja.rs:3964`); the receipt may then say another percentage, hence `fallidas` in `GastoCuadra`.
* An accepted extra is dropped by a copy with a higher state and fewer stages
  (`acuerdo.rs:1112`; the comment at 1101 says "Gossip must not roll a job backwards").
* A `fund-tx` delivered late goes to the next stage, which is locked without a funding
  (`caja.rs:2457`). The model has it, and `ajenos` remembers the stage, for the properties to except it.
* `fund-tx` is sent once and its failure ignored (`caja.rs:3616`): when it is lost and the principal
  proposed, nobody confirms: the contractor's box never knows the transaction.
* Two extras, or two closures, proposed at once carry one number, and nobody may
  answer; merging does not commute for titles edited on both sides; `aceptar_cierre`
  does not look at the state of the deal; a desktop principal may pay at another percentage
  than the one of the receipt (the painted copy is older).

On the sessions:

* After an abort `limpiar_sesion_fondeo` forgets a funding that may be published
  (`caja.rs:2147`): going back, a stage may be funded twice, and with two faults three times:
  a `fund-abort` overtaken by the skeleton of the second funding makes the principal forget that
  one too, and after a restart of the contractor a third is built (`MaxTropiezos = 3`). So
  `FondeoUnico` speaks of the time until a person goes back.
* The contractor marks as spent what its entry took last (`tomar_txid`). With four faults (the
  principal crashes, a proposal is overtaken, the contractor crashes, a `fund-pedir` is overtaken) that is the
  output of another skeleton, not the one on the chain.
* "Accept and pay" again makes a new entry and forgets the transaction of the old one
  (`caja.rs:2252`); the new payment is refused by the network and, once out of reach of
  the scan, stays so.
* `spend-pedir` carries no percentage (`HELP.md:67`): the other box uses its own copy, so
  after a restart a person may sign a percentage never agreed to.
* `dkg.rs:234` says that if the process dies half way one starts again; when one side restarts,
  the other's run has moved on and waits for good. A share whose sending failed is not
  sent again (`caja.rs:2682`).

On the rest:

* `Obra::fusionar` never merges the contractor (`acuerdo.rs:1103`): with two contractors answering
  one offer, copies keep the first contractor with the bond the second accepted. A second
  counter-offer on an offer whose first was rejected is swallowed (`Rechazada` ranks above
  `Contra`), while the comment at 1214 says "A rejected counter puts the notice back." A crash
  that forgets a counter may leave two bonds.
* A program that restarted and connects again is told by the room, after its own announcement, the node of everyone the
  room knew, its own old one included, and tells it back (`dht.rs:1074`, `1099`): the room's entry of that person may go from
  the current node to one that is gone, and messages wait in the mailbox of that one until the next announcement. `Red` has it;
  `Entrega` asks for a receiver that stays reachable.
* After a scan whose query for the newest block failed, the known tip is the end of the chunk (`caja.rs:3251`, `5007`), which may be
  below what was known; a payment is then told `sin-saldo-caja` (`caja.rs:3044`) with newer blocks never looked at, until the
  next tip. `FaltaDeVerdad` with `oido` in place of `TipCreido`.
* Removing an earlier prepared restoration is not atomic, and a program goes on after its
  restoration failed; then profile and boxes may be mixed (`roto`; `respaldo.rs:16` says "Nunca
  se mezcla a medias").
* An empty scan of one block never advances `hasta`, so the wallet's scan repeats each tick and keeps the
  box's idle scan from running until the next block (`SaldoCierto` says so); `retro` stays
  above zero when `desde` reaches 0; outputs spent in the pool are marked spent for good.
* The task of tor ends for good at the first error of `ADD_ONION`; removing and adding a
  destination quickly leaves two `mantener` loops.
* Products in u64 wrap above the bound the theorems of `Reparto` assume.

## 6. The proofs

For every value of the constants their assumptions allow, which TLC evaluates in the runs:

| theorem | states |
|---|---|
| `TratoProofs`: `TipoCorrecto` | `Spec => []TypeOK` |
| `EncerradaTieneFondeo`, `PagadaTieneGasto` | `Spec => []EncerradaConFondeo`, `Spec => []PagadaConGasto` (but for the stages in `ajenos`) |
| `NadaVuelveDelTrato` | `Spec => []NoVuelveDelTrato` |
| `Invariante` | `Spec => []Inv`, the inductive invariant |
| `UnSoloHilo`, `UnSoloRecibo` | `Spec => []HiloInv`, `Spec => []PagoAcordado`, on phones (`Escritorio = {}`) |
| `UnSoloPorcentaje`, `SePagaLoAcordado` | `Spec => []GastoInv`, `Spec => []GastoCuadra`, on phones |
| `ReciboDeLaNota` | `Spec => []ReciboCoherente`, on phones, in deals without extras (`MontosExtra = {}`) |
| `SeEncierraLoFondeado` | `Spec => []FondeoCuadra`, on phones |
| `NadieCortaConFondos` | `Spec => CorteConsentido`, on phones |
| `FusionarObraDentro` (a lemma) | what holds of every stage of two deals and is closed under `Fusionar` holds of every stage of their merge |
| `FondeoProofs`: `Invariante`, `FirmanLosDos`, `FondeoRecordado`, `UnSoloFondeo`, `LibroDelMandante` | `Spec => []IInv`, `Spec => FirmanAmbos` (`Fondeo` implements `FirmaDeAmbos`), `[]FondeoNoSeOlvida`, `[]FondeoUnico`, `[]LibroDe(Mandante)` |
| `GastoProofs`: `Invariante`, `FirmanLosDos`, `PagoRecordado`, `ReciboDelPago` | `Spec => []IInv`, `Spec => FirmanAmbos` (`Gasto` implements `FirmaDeAmbos`), `[]PagoNoSeOlvida`, `[]ReciboCuadra` |
| `DkgProofs`: `Invariante`, `UnaSolaCaja` | `Spec => []IInv`, `[]MismaCaja` |
| `RespaldoProofs`: `Invariante`, `TiposCorrectos`, `NadaSePierdeNunca`, `NuncaMezcla`, `RecordatorioHonesto` | `Spec => []IInv`, `[]TypeOK`, `[]NadaSePierde`, `[]SinMezcla`, `[]FaltaHonesta` |
| `TableroProofs`: `Invariante`, `TiposCorrectos`, `ConsintioElUnico`, `RetiroDelMandante` | `Spec => []IInv`, `[]TypeOK`, `[]UnoConsintio`, and that the offer of a saved withdrawal never comes back to the principal's own board |
| `LibroProofs`: `Invariante`, `NoHayHuecos`, `FaltaSoloSiFalta`, `LoGastadoNoVuelve` | `Spec => []IInv`, `[]SinHuecos`, `[]FaltaDeVerdad`, `NoRevive` |
| `RedProofs`: `Invariante`, `EnUnSoloLugar`, `LaNuevaQueda`, `TiposDeLaRed` | `Spec => []IInv`, `[]UnaVez`, `NoSueltaLaNueva`, `[]TypeOK` |
| `RedProofs`: `TorInvariante`, `SoloConPermiso` | `PrecioSpec => []TorInv`, `PrecioSpec => DirectoConsentido` (`Cotizacion`) |
| `GastoProofs`: `ElRepartoCierra`, `ElFeeSaleDelResto`, `ElViejoEsElMismoPago`, `AlPiconeroMasCercano`, `LasPartidasSonElTrabajo` | the arithmetic of the split, of the price and of the stages (`Reparto`) |

**`Trato`.** `EncerradaConFondeo` is not inductive: a copy locks a stage because a
box knows a transaction, a copy merges with one it never saw stored, and a merge
mixes the stages of two copies. `Inv` says so in four parts: `TypeOK`, with the
number of stages of each announced deal being what it says; `CopiasAnunciadas`, every
stored or read copy was announced, so a fact about `anunciadas` covers what any
operation starts from; `CajasEnCadena`, what a box knows the transaction of is on the
chain or was given to a stage in `ajenos`; `Respaldada`, in each announced copy a stage from
`Encerrada` on has a funding and a paid one a payment, or is in `ajenos`. A step changes only boxes or the
chain, which only grows (`SigueRespaldada`), or publishes a copy (`GuardaBien`, and one
lemma per action), or merges two announced ones; for a merge, `FusionarObraDentro`
holds whatever the four passes do to the lists, and `FusionarEstado` says
which states a merged stage may have. `NoVuelveDelTrato` follows from types
and the lemmas on `Fusionar`: the first pass never touches a stage from `EnTrato` on,
and the others only go up in rank.

**`Trato`, the thread.** What keeps two people from different receipts is that the notes of a stage are one
thread of which each copy has a beginning. `HiloInv` says it of any two announced copies
(`Encajan`), and of each copy that the author of note `k` follows from `k` (the contractor writes the
first) and that turn, percentage and receipt follow from the notes (`Buena`). It is inductive only with what each
person remembers: the copy a person stores and the one the program read have every note that person wrote and
every receipt that person gave (`Recuerda`), unless the deal was cut and the stage dropped. So whoever has the turn
holds the longest thread, nobody has paid, and a new note lengthens the only thread there is.
A merge takes the later of two threads with its turn and its receipt (`PasadaHilo`); a copy drops stages only when it
is cut or nothing was agreed on yet, as when a counter-offer is rejected (`EnContra`). On the
desktop it is not inductive: the painted copy lacks the note just written, and its author may write another.

**`Trato`, the payment.** `GastoInv`: as soon as a box works on the payment of a stage, or the chain has one, the longest
thread of the stage is fixed, with `k` notes of which the last says `pct` (`Tope`); the one who may
write note `k + 1` has all of it, stored and read, and that person's box works on the payment or the payment was made
(`Firme`), so no button offers a counter-offer; and every entry and every payment is for `pct`. `NoAtras` adds that
what a person stores is never behind what the program read. A box that fails offers the counter-offer
again, so all of it is said of the stages none of whose payments failed (`fallidas`), and the id of another stage's payment may
stand for one that was not made, so `GastoCuadra` leaves out `ajenos` as well.

**`Trato`, the receipt.** `CobroInv`: in a deal without extras every stage locks the bond, and every announced copy
has the bond that was agreed on or proposed, so the amount of each receipt is its percentage of it. Once a counter-offer is
rejected the published bond comes back in some copies and not in others, but then every stage of every copy is
pending and nothing more is done (`Quieta`). Since threads are whole, a merge brings the
last note and the receipt together. Extras are left out because their amount is merged apart from the
thread: `PasoAvance` does not take `monto`, and a copy that hears of the stage when it is further along has the amount 0
until another merge fills it; two extras proposed at once may differ in amount. `Acuerdo` has extras.

**`Trato`, the funding.** With two prices proposed at once, each person holds a stage `Encerrando` at a price of their own
until the copies meet, and the boxes may fund in between. `EncierreInv` reads the lock of a stage as how
far it is, who proposed it and at what price (`Traba`). It says that two copies agree on the price of one proposer, and that a stage
locked anywhere is locked by the person of the smaller id if that person proposed it at all (`Concuerdan`), which is
what the merge keeps (`Gana`); that the copies of a person know that person's own proposal
(`Conoce`), and those of the smaller id every stage that is being funded; and that the chain and the box of the smaller id have
only a price nothing can change any more (`Fijo`): the one the smaller id proposed, or that of the other one while the
smaller id proposed none. So whoever locks a stage, by the notice of a transaction or by a merge, has the price that was
paid. A stage that was cancelled and proposed again may be locked with the old funding (section 5), and one that was given
another's transaction has none of its own: what is inductive is that `EncierreInv` holds while no announced copy shows a cancel
(`NadieCancelo`) and `ajenos` is empty; what was cancelled or given wrongly stays so.

**`Trato`, the cut.** A person cuts alone when the copy read shows no lock, but a funding may be under way that the copy does not
show. `CorteInv` says it cannot: both persons' copies show a lock of each stage that is being funded or was (`Muestra`), for one
of them proposed it, the other read it before asking for the funding, and no merge drops it. And once a
copy was cut by one person alone (`Sola`), that person ended the deal, never proposed a lock (`Corto`) and so nothing can be
funded any more, although the other may go on proposing without having heard. A merge takes end and number of the closure
together (`CierreDeFusion`). As with the funding, this holds until a cancel or a misdirected notice; after a cancel it is false,
as `Corte` shows.

**`Libro`.** `SinHuecos` needs the result that waits to be taken: between the launch of a chunk and the tick
that takes it the chain grows, outputs are spent and the person asks for more. `IInv` adds that no
ledger goes beyond the chain (`Alcance`), that the running job's chunk touches what was
looked at (`Trabajo`), that its result lists every output of that chunk that was unspent
when it ran (`Resultado`), and that what memory knows to be spent is on the disk and on
the chain (`Gastadas`, `Semillas`). Then each `Toma*` extends an interval by an adjacent
chunk without a hole, and whatever is listed was not known to be spent. One lemma per action.
`FaltaDeVerdad` needs nothing of how the known tip came about but that, until a query fails, it is the newest heard of (`Oidas`): a
result then carries the chain's own tip, which was never below an earlier one (`TipDeResultado`).

**`Cotizacion`.** A request without Tor starts only with no SOCKS. That this means tor is off, absent
or broken, and not starting, is the invariant `SinTorNoHayTarea`: a desktop
without a SOCKS either has its task still bringing tor up, in state `Arrancando`, or has no task left.

**`Gasto`.** A step that signs or publishes is a step `Firmar` of `FirmaDeAmbos`, every other step agrees to
something or changes nothing. That both signed what is published follows from `Entradas` and
`EnCamino`: a signature kept in an entry is in the history of its box, and a share, in an entry or on
its way, in the history of the other. That both agreed to the percentage is harder, since no box
compares it: the principal's entry may have been opened by a `spend-pedir`, which carries none.
`Ofrecido` says a copy shows what the one without the turn asked for; `Parejas`, that the copies agree or one
has a note the other waits for, so whoever has the turn sees what the other sees; and
`SinEmpezar`, that until the principal's box has an entry or a program restarts there is only the request
of a contractor who had the turn. So the entry opened for a request finds the percentage the other
accepted. After a restart that argument is gone, and with it the consent (section 5).
`PagoNoSeOlvida` needs a second invariant, `JInv`: the principal's entry and its file both have what is on the
chain (`Recuerda`), nobody sends the principal a transaction (`SinTx`), and an entry that knows one either completed
it or was loaded from the file and takes part in nothing (`Fiel`). So an entry about to broadcast never knew another
payment, and what a crash leaves of it is the file. Most steps are one case of `Conserva`.

**`Fondeo`.** Here each box does compare: the contractor signs a proposal whose amount is that of its own
entry, the principal closes with a skeleton that answers its own proposal. `IInv` says what makes those
comparisons enough, wherever the session stopped and whatever came late: an entry with an
amount was opened by a person who agreed to it, a proposal is for an amount the principal agreed to
and only the contractor's box holds one of the other, and a skeleton, in an entry or on its way,
carries a signature the contractor made. Only `ArmarEsqueleto` and `Cerrar` are steps `Firmar`; that nothing is spent twice
is the network's refusal (`Conflicto`). Most steps change only flags of an entry
(`Variante`, `PasoDeMarcas`).
For `FondeoNoSeOlvida`, `JInv` adds: until a person goes back each stage is proposed once (`SinVolver`), nobody tells the
principal to drop a funding (`Callan`), a funding the node refused is the only one of its stage (`RechazoLimpio`), so
dropping it forgets nothing, and entry and file have what is on the chain (`Recuerda`). A step keeps it if it keeps
the transaction of the principal's entry or takes it back from the file (`Guarda`).
`FondeoUnico` follows from the same parts: to broadcast, the entry must know no transaction. For the ledger of the principal
`KInv` says that the output an entry took is the one its job or its proposal has and the one the broadcast spends, so what
leaves the ledger is on the chain, also after an abort (`Heredan`).

**`Gasto`, the receipt.** `ReciboCuadra` is about a percentage no message carries. `KInv` says, until a program restarts or a
person goes back: once either box has an entry or a message is out (`Empezada`) the copies agree (`Iguales`), and the
one with the turn has an entry or sees no payment (`Ocupada`), so no counter-offer is possible; every entry,
message and payment is for the percentage of the copies (`Firme`).

**`Dkg`.** Two boxes differ if they come of different runs. `DeUnaVez`: a run of the contractor answers one
commitment, so its number fixes the other's; `EnOrden`: a later run of the principal goes with a later run of the
contractor. With these, an account of one person that is not the other's must be older or newer, and `Guardadas` and
`LaUltima` exclude that while accounts were lost once at most: only who lost one makes another, and what the contractor
holds is the last there is.

**`Respaldo`.** Between any two renames, `EnDos` says in which of two directories each entry of the restoration is; before the first
one it is whole (`Entero`), and with nothing pending the data directory is of one restoration (`Sano`). That is why a profile is not
mixed however often the application is cut. `NadaSePierde` needs `Movidas`: a directory put aside that got the boxes
gets none again in the same start, so no rename overwrites a share. `FaltaHonesta` follows from `Sano`: the mark of the last
backup is of a file that exists and whose shares are all still there.

**`Tablero`.** `Respondidas`: every copy of a deal, in memory and saved, names somebody who answered the offer and a bond
somebody answered with. That is closed under `Fusionar`, and with one contractor both are the same person. The bounded
list is typed by `Fechas`: withdrawals have different dates, so the latest ones are at most `MaxRetiradas`. For
`RetiroDelMandante`, `RInv`
says that a withdrawal still among the latest `MaxRetiradas` is in the principal's list in memory, and once saved on the disk too: a
merge of two lists keeps whatever fewer than `MaxRetiradas` dates follow. It is the safe half of `RetiroQueda`; that every other node
hears of it needs fairness.

**`Red`.** A message may be in a mailbox, in the tray, in a dial, on its way up or down any of the sessions, or taken out to be
written on one. `Lugares` counts all of them, and the history `perdidas` has what a limit, a broken session or a restart
took, so `UnaVez` says both that nothing is copied and that nothing else is dropped. Counting is not
what is inductive. `IInv` says that no queue has a message twice (`Sencillas`) and that each message sent is in the
queue of exactly one key, unless it was lost, when it is in none (`Cuenta`). Every step is then one of four: a
message is born in one queue (`Nace`, `Nacer`); some messages go from the queues they are in to one other, while what they
push out of a full queue is lost (`Traslado`, `Mueve`; `MuevenTodos` when nothing is, as a mailbox handed over on
registering); some are only lost (`SePierden`, `Perder`); or no queue changes its messages (`NadaSeMueve`,
`Quietas`), as when only what an end believes of its session does. Announcements carry no message of the box, however many and
however stale (`Anuncios`). `Cardinality` enters only at the end (`EnUnLugar`).
`NoSueltaLaNueva` needs of the invariant just the types, and that the mark of "no session" is no session's number.

**`Reparto`.** For every capital with `100 * capital < U64`, percentage and fee: the
shares and the fee are the pot, and the later error checks of the split cannot fail; the
fee comes from the side that gets the rest first; the split of older versions is
accepted as the same payment; dollars become the nearest piconero.

**Model-checked only.** Everything with fairness, which is beyond the prover, so `RetiroQueda` and `MismoTrato` of
`Tablero` as well. `MontosCuadran` adds up the amounts of all stages, an induction over data. `PagoAcordado` and
`GastoCuadra` on the desktop and `ReciboCoherente` with extras do not hold in all configurations. `FondeoCuadra` and
`CorteConsentido` are proved for phones only. `Conmuta` is false in general: titles
edited on both sides (section 5) merge into copies that depend on the order; it is checked in `Pago`, where nobody
edits. `LibroHonesto` is
proved for the principal; for the contractor it is false beyond its bound. `Sala` has the one theorem on the permission.

## 7. Not modelled, and the plan

Left out for good: the algebra of keys, rings and signatures (its consequences are taken:
both must sign, an output is spent once); framing, handshake and sockets (a session may
end at any moment, a send may fail); layout, wording, languages, PDF exports; Android
screens, which keep no state of the deal; vendored libraries. The framing of saved
files and the copy kept of a damaged one (`persist.rs`), archiving a deal on one device,
and `mandar_direccion` of the box are small and left for later.

Plan, in this order:

1. `Trato` with a crash between two writes of the disk.
2. `Red` in both directions with two relays, and `Fondeo` over it in place of its own `red`.
