--------------------------- MODULE Configuration ----------------------------
(***************************************************************************)
(* shared/sdk-server/src/options/Configuration.ts with the validators of   *)
(* shared/common/src/validators.ts: what becomes of the options that an    *)
(* application passes, whatever is in them.  They are a function from      *)
(* names to the values of Contexts, numbers, booleans and functions, for   *)
(* which what they return stands.  Warnings, tags and NaN are left out.    *)
(***************************************************************************)
EXTENDS Contexts

Num(n) == [type |-> "number", of |-> n]
Bool(b) == [type |-> "boolean", of |-> b]
List(values) == [type |-> "array", of |-> values]
Returning(v) == [type |-> "function", of |-> v]

-----------------------------------------------------------------------------
(* validators.ts                                                           *)

Type(type) == [name |-> "Type", type |-> type, min |-> 0]
NumberWithMin(min) == [name |-> "NumberWithMinimum", type |-> "number", min |-> min]
ObjectOrFactory == [name |-> "FactoryOrInstance", type |-> "factory method or object", min |-> 0]
StringArray == [name |-> "TypeArray", type |-> "string[]", min |-> 0]

(* null is an object.                                                      *)
TypeOf(v) == IF v.type = "null" THEN "object" ELSE v.type

Validates(validator, v) ==
  CASE validator.name = "Type" -> TypeOf(v) = validator.type
    [] validator.name = "NumberWithMinimum" -> v.type = "number" /\ v.of >= validator.min
    [] validator.name = "FactoryOrInstance" -> TypeOf(v) \in {"function", "object"}
    [] validator.name = "TypeArray" -> v.type = "array" /\ \A entry \in v.of : entry.type = "string"

-----------------------------------------------------------------------------
(* Configuration.ts                                                        *)

Validations ==
  [baseUri |-> Type("string"), streamUri |-> Type("string"), eventsUri |-> Type("string"),
   wrapperName |-> Type("string"), wrapperVersion |-> Type("string"),
   timeout |-> Type("number"), capacity |-> Type("number"), flushInterval |-> Type("number"),
   streamInitialReconnectDelay |-> Type("number"), contextKeysCapacity |-> Type("number"),
   contextKeysFlushInterval |-> Type("number"),
   logger |-> Type("object"), bigSegments |-> Type("object"), proxyOptions |-> Type("object"),
   tlsParams |-> Type("object"), application |-> Type("object"),
   offline |-> Type("boolean"), stream |-> Type("boolean"), useLdd |-> Type("boolean"), sendEvents |-> Type("boolean"),
   allAttributesPrivate |-> Type("boolean"), diagnosticOptOut |-> Type("boolean"),
   featureStore |-> ObjectOrFactory, updateProcessor |-> ObjectOrFactory, privateAttributes |-> StringArray,
   pollInterval |-> NumberWithMin(30), diagnosticRecordingInterval |-> NumberWithMin(60)]

DefaultValues ==
  [baseUri |-> Str(<<"base">>), streamUri |-> Str(<<"stream">>), eventsUri |-> Str(<<"events">>),
   stream |-> Bool(TRUE), streamInitialReconnectDelay |-> Num(1), sendEvents |-> Bool(TRUE),
   timeout |-> Num(5), capacity |-> Num(10000), flushInterval |-> Num(5), pollInterval |-> Num(30),
   offline |-> Bool(FALSE), useLdd |-> Bool(FALSE), allAttributesPrivate |-> Bool(FALSE),
   privateAttributes |-> List({}), contextKeysCapacity |-> Num(1000), contextKeysFlushInterval |-> Num(300),
   diagnosticOptOut |-> Bool(FALSE), diagnosticRecordingInterval |-> Num(900),
   featureStore |-> Returning(Obj(<<>>))]

(* An option of another type is the default, except that booleans are what *)
(* it is taken for: one that is there but undefined is false, also if the  *)
(* default is true.                                                        *)
ValidatedOption(name, v) ==
  LET validator == Validations[name] IN
  IF Validates(validator, v) THEN v
  ELSE IF validator.type = "boolean" THEN Bool(Truthy(v))
  ELSE IF validator.name = "NumberWithMinimum" /\ v.type = "number" THEN Num(validator.min)
  ELSE Property(DefaultValues, name)

ValidateTypesAndNames(options) ==
  WithDefaults([name \in DOMAIN options \cap DOMAIN Validations |-> ValidatedOption(name, options[name])], DefaultValues)

(* ServiceEndpoints.ts: a URI has no slashes at its end.                   *)
CanonicalizeUri(uri) ==
  SubSeq(uri, 1, SelectLastInSeq(uri, LAMBDA token : token # "/"))

Endpoint(uri) == Str(CanonicalizeUri(uri.of))

Factory(v) == IF v.type = "function" THEN v ELSE Returning(v)

Configure(validated) ==
  WithDefaults(
    [serviceEndpoints |-> [streaming |-> Endpoint(validated["streamUri"]),
                           polling |-> Endpoint(validated["baseUri"]),
                           events |-> Endpoint(validated["eventsUri"])],
     eventsCapacity |-> validated["capacity"],
     updateProcessorFactory |-> Factory(Property(validated, "updateProcessor")),
     featureStoreFactory |-> Factory(validated["featureStore"])],
    validated)

Configuration(options) == Configure(ValidateTypesAndNames(options))

-----------------------------------------------------------------------------
(* LDClientImpl.ts and EventProcessor.ts: which events are sent, and what   *)
(* they leave out.                                                         *)

SendsEvents(config) == config["sendEvents"].of /\ ~config["offline"].of

ContextFilter(config) ==
  [allAttributesPrivate |-> config["allAttributesPrivate"].of,
   privateAttributes |-> {Reference(entry.of) : entry \in config["privateAttributes"].of}]
=============================================================================
