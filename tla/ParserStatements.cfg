SPECIFICATION ParserSpec
CONSTANT Streams <- ExpressionStreams
INVARIANT ExpressionsAreStatements
